---- MODULE Spec2Model ----
(***************************************************************************)
(* A model of @gibme/ssdp: the SSDP message codec (src/src/ssdp.ts), the   *)
(* Browser (src/src/browser.ts) and the Advertiser (src/unnamed/part_000). *)
(*                                                                         *)
(* Text.  A JavaScript string is modelled as a sequence of tokens.  A      *)
(* token is one of the separators the codec looks at (":", " ", "\r",      *)
(* "\n", "\t") or a word: a run of characters that contains none of them.  *)
(* split, trim, join, startsWith and toUpperCase are computed on that      *)
(* sequence the way the code computes them on characters.                  *)
(***************************************************************************)
EXTENDS Integers, Sequences, FiniteSets, Bags, TLC

(***************************************************************************)
(* Bounds of the model.                                                    *)
(***************************************************************************)
\* The longest services list handed to Browser.create / Advertiser.create.
MaxCreate == 2
\* How many inbound searches may wait for the authentication hook at once.
MaxPending == 2

(***************************************************************************)
(* Strings.                                                                *)
(***************************************************************************)
SP == " "
CR == "\r"
LF == "\n"
TAB == "\t"
COLON == ":"

\* String.prototype.trim removes white space and line terminators.
IsSpace(t) == t \in {SP, CR, LF, TAB}

RECURSIVE trimStart(_)
trimStart(s) ==
    IF s # <<>> /\ IsSpace(Head(s)) THEN trimStart(Tail(s)) ELSE s

RECURSIVE trimEnd(_)
trimEnd(s) ==
    IF s # <<>> /\ IsSpace(s[Len(s)])
    THEN trimEnd(SubSeq(s, 1, Len(s) - 1))
    ELSE s

trim(s) == trimEnd(trimStart(s))

\* String.prototype.indexOf from position i: 0 when sep does not occur.
RECURSIVE indexOf(_, _, _)
indexOf(s, sep, i) ==
    IF i > Len(s) THEN 0
    ELSE IF s[i] = sep THEN i
    ELSE indexOf(s, sep, i + 1)

\* String.prototype.split(sep) for a one-token separator: always at least
\* one part, and empty parts are kept.
RECURSIVE split(_, _)
split(s, sep) ==
    LET i == indexOf(s, sep, 1)
    IN  IF i = 0 THEN <<s>>
        ELSE <<SubSeq(s, 1, i - 1)>> \o split(SubSeq(s, i + 1, Len(s)), sep)

\* Array.prototype.join(sep), sep itself a string.
RECURSIVE join(_, _)
join(parts, sep) ==
    IF parts = <<>> THEN <<>>
    ELSE IF Len(parts) = 1 THEN parts[1]
    ELSE parts[1] \o sep \o join(Tail(parts), sep)

\* String.prototype.startsWith for a one-word prefix.
startsWith(s, word) == s # <<>> /\ Head(s) = word

\* The words of the model that hold a lower-case letter, with their
\* upper-case form; every other token is its own upper-case form.
UpperCaseOf ==
    [w \in {"st", "nt", "nts", "man", "usn", "host", "a", "Nt", "m-search", "notify"} |->
        CASE w = "st"       -> "ST"
          [] w = "nt"       -> "NT"
          [] w = "Nt"       -> "NT"
          [] w = "nts"      -> "NTS"
          [] w = "man"      -> "MAN"
          [] w = "usn"      -> "USN"
          [] w = "host"     -> "HOST"
          [] w = "a"        -> "A"
          [] w = "m-search" -> "M-SEARCH"
          [] w = "notify"   -> "NOTIFY"]

toUpperCase(s) ==
    [i \in 1..Len(s) |->
        IF s[i] \in DOMAIN UpperCaseOf THEN UpperCaseOf[s[i]] ELSE s[i]]

(***************************************************************************)
(* Well-known strings.                                                     *)
(***************************************************************************)
ssdp_all        == <<"ssdp", ":", "all">>
upnp_rootdevice == <<"upnp", ":", "rootdevice">>
ssdp_alive      == <<"ssdp", ":", "alive">>
ssdp_update     == <<"ssdp", ":", "update">>
ssdp_byebye     == <<"ssdp", ":", "byebye">>
ssdp_discover   == <<"\"ssdp", ":", "discover\"">>
Star            == <<"*">>
MulticastHost   == <<"239.255.255.250", ":", "1900">>

ST   == <<"ST">>
NT   == <<"NT">>
NTS  == <<"NTS">>
MAN  == <<"MAN">>
USN  == <<"USN">>
HOST == <<"HOST">>
MX   == <<"MX">>
EXT  == <<"EXT">>

(***************************************************************************)
(* The platform's Headers class, as far as the code relies on it: names    *)
(* compare case-insensitively (the model keeps the upper-case form, the    *)
(* form Payload.toString emits), values lose leading and trailing white    *)
(* space, and set() throws a TypeError on a name that is not an HTTP token *)
(* or a value that holds CR, LF or NUL.                                    *)
(***************************************************************************)
EmptyHeaders == [k \in {} |-> <<>>]

\* The words of the model that hold a character outside the HTTP token set.
NotTokenWords == {"\"ssdp", "discover\"", "HTTP/1.1", "(x)"}

ValidHeaderName(name) ==
    /\ name # <<>>
    /\ \A i \in 1..Len(name) :
          ~IsSpace(name[i]) /\ name[i] # COLON /\ name[i] \notin NotTokenWords

ValidHeaderValue(value) ==
    \A i \in 1..Len(value) : value[i] \notin {CR, LF}

Headers_has(headers, name) == toUpperCase(name) \in DOMAIN headers

\* Headers.get: null when the name is absent.  The only caller,
\* Payload.getHeader, turns null and "" alike into undefined, so the model
\* gives the empty string for an absent name.
Headers_get(headers, name) ==
    IF Headers_has(headers, name) THEN headers[toUpperCase(name)] ELSE <<>>

\* Headers.set on a valid name and value.
Headers_set(headers, name, value) ==
    LET key == toUpperCase(name)
    IN  [k \in DOMAIN headers \cup {key} |->
            IF k = key THEN trim(value) ELSE headers[k]]

Headers_setThrows(name, value) ==
    ~ValidHeaderName(name) \/ ~ValidHeaderValue(trim(value))

Headers_delete(headers, name) ==
    [k \in DOMAIN headers \ {toUpperCase(name)} |-> headers[k]]

(***************************************************************************)
(* SSDP.Payload: a message is [method, isReply, headers]; a Search also    *)
(* carries host and port.                                                  *)
(***************************************************************************)
Payload(method) ==
    [method |-> method, isReply |-> (method = "reply"), headers |-> EmptyHeaders]

Payload_setHeaderThrows(key, value) == Headers_setThrows(trim(key), trim(value))

Payload_setHeader(message, key, value) ==
    [message EXCEPT
        !.headers = Headers_set(@, toUpperCase(trim(key)), trim(value))]

Payload_hasHeader(message, key) ==
    Headers_has(message.headers, toUpperCase(trim(key)))

\* undefined is modelled as the empty string: getHeader never returns "".
Payload_getHeader(message, key) ==
    Headers_get(message.headers, toUpperCase(trim(key)))

\* The header lines of a payload: everything after the first line, trimmed,
\* blank lines dropped.
Payload_lines(payload) ==
    LET all == Tail(split(payload, LF))
    IN  SelectSeq([i \in 1..Len(all) |-> trim(all[i])], LAMBDA l : Len(l) > 0)

\* One header line: the parts between colons, each trimmed.
Payload_parts(line) ==
    LET raw == split(line, COLON)
    IN  [i \in 1..Len(raw) |-> trim(raw[i])]

\* Payload._decode: [threw, headers]; threw when Headers.set throws.
RECURSIVE Payload_decodeLines(_, _)
Payload_decodeLines(lines, headers) ==
    IF lines = <<>> THEN [threw |-> FALSE, headers |-> headers]
    ELSE LET parts == Payload_parts(Head(lines))
             key   == parts[1]
             value == Tail(parts)
         IN  IF key # <<>> /\ Len(value) > 0
             THEN LET v == trim(join(value, <<COLON>>))
                  IN  IF Headers_setThrows(toUpperCase(key), v)
                      THEN [threw |-> TRUE, headers |-> EmptyHeaders]
                      ELSE Payload_decodeLines(Tail(lines),
                               Headers_set(headers, toUpperCase(key), v))
             ELSE Payload_decodeLines(Tail(lines), headers)

Payload_decode(payload) == Payload_decodeLines(Payload_lines(payload), EmptyHeaders)

\* The header names of the model in the order localeCompare sorts them.
SortedNames == <<<<"A">>, EXT, HOST, <<"LOCATION">>, MAN, MX, NT, NTS, ST, USN>>

Payload_sortedKeys(headers) == SelectSeq(SortedNames, LAMBDA k : k \in DOMAIN headers)

\* Payload.deleteHeader.
Payload_deleteHeader(message, key) ==
    [message EXCEPT !.headers = Headers_delete(@, trim(key))]

\* Headers.forEach with a callback that deletes the name it is given.  The
\* iteration goes by position through the sorted names as they are at each
\* step, so a deletion moves the next name into the position just visited
\* and that name is passed over.
RECURSIVE Headers_deleteEach(_, _)
Headers_deleteEach(headers, index) ==
    LET keys == Payload_sortedKeys(headers)
    IN  IF index > Len(keys) THEN headers
        ELSE Headers_deleteEach(Headers_delete(headers, keys[index]), index + 1)

\* Payload.clearHeaders.
Payload_clearHeaders(message) ==
    [message EXCEPT !.headers = Headers_deleteEach(@, 1)]

Payload_firstLine(method) ==
    IF method = "reply"
    THEN <<"HTTP/1.1", SP, "200", SP, "OK">>
    ELSE toUpperCase(<<method>>) \o <<SP, "*", SP, "HTTP/1.1">>

\* A toString that writes the headers in descending key order.
Payload_toString_descending(message) ==
    LET keys  == Payload_sortedKeys(message.headers)
        lines == [i \in 1..Len(keys) |->
                    toUpperCase(keys[Len(keys) + 1 - i]) \o <<COLON, SP>>
                        \o message.headers[keys[Len(keys) + 1 - i]]]
    IN  join(<<Payload_firstLine(message.method)>> \o lines \o <<<<CR, LF>>>>,
             <<CR, LF>>)

\* Payload.toString.
Payload_toString(message) ==
    LET keys  == Payload_sortedKeys(message.headers)
        lines == [i \in 1..Len(keys) |->
                    toUpperCase(keys[i]) \o <<COLON, SP>> \o message.headers[keys[i]]]
    IN  join(<<Payload_firstLine(message.method)>> \o lines \o <<<<CR, LF>>>>,
             <<CR, LF>>)

\* The constructors of the three message kinds.
Search(host, port) ==
    [method |-> "m-search", isReply |-> FALSE, headers |-> EmptyHeaders,
     host |-> host, port |-> port]

Notification == Payload("notify")

Reply == Payload("reply")

\* Search.decode / Notification.decode / Reply.decode on a payload that
\* Payload._decode accepts.
Search_decode(payload, host, port) ==
    [Search(host, port) EXCEPT !.headers = Payload_decode(payload).headers]

Notification_decode(payload) ==
    [Notification EXCEPT !.headers = Payload_decode(payload).headers]

Reply_decode(payload) ==
    [Reply EXCEPT !.headers = Payload_decode(payload).headers]

\* A message built by successive setHeader calls, pairs = <<<<key, value>>, ...>>.
RECURSIVE WithHeaders(_, _)
WithHeaders(message, pairs) ==
    IF pairs = <<>> THEN message
    ELSE WithHeaders(Payload_setHeader(message, pairs[1][1], pairs[1][2]), Tail(pairs))

(***************************************************************************)
(* The SSDP socket wrapper.  A message handed to the transport is logged   *)
(* as [message, dstAddress, dstPort]; an omitted destination (the          *)
(* multicast group) is the empty address and port 0.                       *)
(***************************************************************************)
SSDP_sendMessage(message, dstAddress, dstPort) ==
    [message |-> message, dstAddress |-> dstAddress, dstPort |-> dstPort]

\* headers.forEach((value, key) => message.setHeader(key, value)): the
\* names of a Headers object are distinct, so the order does not matter.
RECURSIVE CopyHeaders(_, _, _)
CopyHeaders(message, headers, names) ==
    IF names = {} THEN message
    ELSE LET n == CHOOSE x \in names : TRUE
         IN  CopyHeaders(Payload_setHeader(message, n, headers[n]), headers, names \ {n})

\* SSDP.search with the default wait time (3) and no extra headers.
SSDP_search(serviceType) ==
    SSDP_sendMessage(
        WithHeaders(Search(<<"239.255.255.250">>, 1900),
            << <<MAN, ssdp_discover>>, <<HOST, MulticastHost>>,
               <<ST, serviceType>>, <<MX, <<"3">> >>, <<EXT, <<>> >> >>),
        <<>>, 0)

\* The three NOTIFY senders differ in NTS only.
SSDP_notification(serviceType, headers, nts) ==
    SSDP_sendMessage(
        WithHeaders(CopyHeaders(Notification, headers, DOMAIN headers),
            << <<HOST, MulticastHost>>, <<NT, serviceType>>, <<NTS, nts>> >>),
        <<>>, 0)

SSDP_notify(serviceType, headers) == SSDP_notification(serviceType, headers, ssdp_alive)

SSDP_update(serviceType, headers) == SSDP_notification(serviceType, headers, ssdp_update)

SSDP_bye(serviceType, headers) == SSDP_notification(serviceType, headers, ssdp_byebye)

SSDP_reply(request, response) == SSDP_sendMessage(response, request.host, request.port)

\* A handler that takes everything that is not an M-SEARCH for a Reply.
SSDP_onMessage_two_kinds(message, remote) ==
    LET threw == Payload_decode(message).threw
    IN  IF startsWith(message, "M-SEARCH")
        THEN IF threw
             THEN [emit |-> "error", type |-> "M-SEARCH", raw |-> message]
             ELSE LET payload == Search_decode(message, remote.address, remote.port)
                  IN  IF /\ Payload_getHeader(payload, MAN) = ssdp_discover
                         /\ Payload_hasHeader(payload, ST)
                      THEN [emit |-> "search", payload |-> payload]
                      ELSE [emit |-> "none"]
        ELSE IF threw
             THEN [emit |-> "error", type |-> "REPLY", raw |-> message]
             ELSE [emit |-> "reply", payload |-> Reply_decode(message)]

\* The socket's 'message' handler: what the SSDP instance emits for one
\* inbound datagram.  emit is "search", "notification", "reply", "error"
\* or "none".
SSDP_onMessage(message, remote) ==
    LET threw == Payload_decode(message).threw
    IN  IF startsWith(message, "M-SEARCH")
        THEN IF threw
             THEN [emit |-> "error", type |-> "M-SEARCH", raw |-> message]
             ELSE LET payload == Search_decode(message, remote.address, remote.port)
                  IN  IF /\ Payload_getHeader(payload, MAN) = ssdp_discover
                         /\ Payload_hasHeader(payload, ST)
                      THEN [emit |-> "search", payload |-> payload]
                      ELSE [emit |-> "none"]
        ELSE IF startsWith(message, "NOTIFY")
        THEN IF threw
             THEN [emit |-> "error", type |-> "NOTIFY", raw |-> message]
             ELSE [emit |-> "notification", payload |-> Notification_decode(message)]
        ELSE IF threw
             THEN [emit |-> "error", type |-> "REPLY", raw |-> message]
             ELSE [emit |-> "reply", payload |-> Reply_decode(message)]

\* The 'error' event both roles re-emit for an SSDP 'error'.
ErrorEvent(type, raw) == [event |-> "error", type |-> type, raw |-> raw]

(***************************************************************************)
(* Insertion-ordered Set<string> and Map<string, Headers>.                 *)
(***************************************************************************)
Set_has(set, value) == \E i \in 1..Len(set) : set[i] = value

\* An add that does not look for the value first.
Set_add_again(set, value) == Append(set, value)

Set_add(set, value) == IF Set_has(set, value) THEN set ELSE Append(set, value)

Set_delete(set, value) == SelectSeq(set, LAMBDA v : v # value)

RECURSIVE Set_addAll(_, _)
Set_addAll(set, values) ==
    IF values = <<>> THEN set
    ELSE Set_addAll(Set_add(set, Head(values)), Tail(values))

Map_has(map, key) == \E i \in 1..Len(map) : map[i][1] = key

Map_get(map, key) == map[CHOOSE i \in 1..Len(map) : map[i][1] = key][2]

Map_set(map, key, value) ==
    IF Map_has(map, key)
    THEN [i \in 1..Len(map) |-> IF map[i][1] = key THEN <<key, value>> ELSE map[i]]
    ELSE Append(map, <<key, value>>)

Map_delete(map, key) == SelectSeq(map, LAMBDA e : e[1] # key)

Map_keys(map) == [i \in 1..Len(map) |-> map[i][1]]

\* The sequences over S of length at most n.
SeqUpTo(S, n) == UNION {[1..k -> S] : k \in 0..n}

\* The elements of a sequence.
Range(seq) == {seq[i] : i \in 1..Len(seq)}

(***************************************************************************)
(* The inputs of the model.                                                *)
(***************************************************************************)
urn_test_1 == <<"urn", ":", "test", ":", "1">>
urn_test_2 == <<"urn", ":", "test", ":", "2">>

\* The senders of inbound datagrams.
Remotes ==
    { [address |-> <<"10.0.0.1">>, port |-> 50001],
      [address |-> <<"10.0.0.2">>, port |-> 50002] }

\* The Browser treats every sender alike: one stands for all.
BrowserRemotes == { [address |-> <<"10.0.0.1">>, port |-> 50001] }

\* Wire text written by hand: a first line, header lines, a blank line.
Line(name, value) == name \o <<COLON, SP>> \o value \o <<CR, LF>>

Datagram(first, lines) == first \o <<CR, LF>> \o lines \o <<CR, LF>>

NotifyLine == <<"NOTIFY", SP, "*", SP, "HTTP/1.1">>
SearchLine == <<"M-SEARCH", SP, "*", SP, "HTTP/1.1">>
StatusLine == <<"HTTP/1.1", SP, "200", SP, "OK">>

\* A header line whose name is not an HTTP token: Headers.set throws on it.
BadLine == Line(<<"BAD", SP, "NAME">>, <<"x">>)

\* The service strings the Browser's callers use.
BrowserTargets == {urn_test_1, urn_test_2, ssdp_all, Star}

NtLines ==
    { <<>>, Line(NT, urn_test_1), Line(<<"nt">>, ssdp_all), Line(NT, <<>>) }

NtsLines ==
    { <<>>, Line(NTS, ssdp_alive), Line(NTS, ssdp_update), Line(NTS, ssdp_byebye),
      Line(NTS, <<"ssdp", ":", "other">>) }

StLines == { <<>>, Line(ST, urn_test_1), Line(ST, Star) }

\* The datagrams the Browser's socket may receive.
BrowserInbound ==
    {Datagram(NotifyLine, Line(HOST, MulticastHost) \o nt \o nts) :
        nt \in NtLines, nts \in NtsLines}
    \cup {Datagram(StatusLine, st \o nts) :
        st \in StLines, nts \in {<<>>, Line(NTS, ssdp_byebye)}}
    \cup { Datagram(SearchLine, Line(MAN, ssdp_discover) \o Line(ST, urn_test_1)),
           Datagram(NotifyLine, Line(NT, urn_test_1) \o Line(NTS, ssdp_alive) \o BadLine),
           Datagram(StatusLine, BadLine \o Line(ST, urn_test_1)) }

(***************************************************************************)
(* State.                                                                  *)
(***************************************************************************)
VARIABLES
    _searchTargets,    \* Browser._searchTargets, in insertion order
    browserTimer,      \* the Browser's timer: "started", "running" or "destroyed"
    browserSocket,     \* the Browser's socket: "open" or "destroyed"
    _services,         \* Advertiser._services, in insertion order
    isDestroyed,       \* Advertiser.isDestroyed
    advertiserTimer,   \* the Advertiser's timer: "started", "running" or "destroyed"
    advertiserSocket,  \* the Advertiser's socket: "open" or "destroyed"
    pending,           \* the bag of handle_payload calls waiting for the hook
    goodbyes,          \* where send_goodbyes stands, its errors, what it has sent
    op,                \* the operation of the last step, its arguments and result
    sent,              \* the messages the last step handed to the transport, in order
    events,            \* the events the last step emitted, in order
    before,            \* the sets the last step started from
    network            \* whether the two roles hear each other, and the datagrams in flight

browserVars == <<_searchTargets, browserTimer, browserSocket>>

advertiserVars ==
    <<_services, isDestroyed, advertiserTimer, advertiserSocket, pending, goodbyes>>

vars == <<browserVars, advertiserVars, op, sent, events, before, network>>

Snapshot == [targets |-> _searchTargets, services |-> _services, pending |-> pending]

\* What every step records.
Log(operation, messages, emitted) ==
    /\ op' = operation
    /\ sent' = messages
    /\ events' = emitted
    /\ before' = Snapshot

\* The transport under the sockets.  A role studied by itself has no peer
\* and a transport that reports no errors.  With a peer (linked) the
\* messages handed over stay in flight until the peer receives them.  A
\* faulty transport resolves every send with a list of errors, later.
NoPeer == [linked |-> FALSE, inFlight |-> EmptyBag, faulty |-> FALSE, unsettled |-> <<>>]

MaxUnsettled == 2

\* The lists of errors socket.send may resolve with.
SendOutcomes == { <<>>, <<"EHOSTUNREACH", "ENETUNREACH">> }

\* The datagrams of a sequence of messages, each as often as it occurs.
RECURSIVE BagOfSeq(_)
BagOfSeq(messages) ==
    IF messages = <<>> THEN EmptyBag
    ELSE SetToBag({Head(messages)}) (+) BagOfSeq(Tail(messages))

\* The callers of the two roles hold back while this many datagrams are in
\* flight; a Reply, the answer to a datagram that was delivered, is never
\* held back.
MaxInFlight == 3

\* The networks there can be once the messages have been handed to the
\* transport, one after the other and all of them: a send returns a
\* promise, whose outcome nothing in the sweep waits for.
Transmit(net, messages) ==
    IF net.linked
    THEN IF \/ messages = <<>>
            \/ \A i \in 1..Len(messages) : messages[i].message.isReply
            \/ BagCardinality(net.inFlight) + Len(messages) <= MaxInFlight
         THEN {[net EXCEPT !.inFlight = @ (+) BagOfSeq(messages)]}
         ELSE {}
    ELSE IF net.faulty
    THEN IF Len(net.unsettled) + Len(messages) > MaxUnsettled
         THEN {}
         ELSE {[net EXCEPT !.unsettled =
                    @ \o [i \in 1..Len(messages) |->
                            [message |-> messages[i], errors |-> outcome[i]]]] :
                 outcome \in [1..Len(messages) -> SendOutcomes]}
    ELSE {net}

\* A step that receives nothing from the network.
Step(operation, messages, emitted) ==
    /\ Log(operation, messages, emitted)
    /\ network' \in Transmit(network, messages)

(***************************************************************************)
(* Browser.                                                                *)
(***************************************************************************)
\* A sweep that searches for the first target only.
browse_first_only(searchTargets) ==
    IF Len(searchTargets) = 0 THEN <<>>
    ELSE <<SSDP_search(searchTargets[1])>>

\* Browser.browse: the searches handed to the transport.
browse(searchTargets) ==
    IF Len(searchTargets) = 0 THEN <<>>
    ELSE [i \in 1..Len(searchTargets) |-> SSDP_search(searchTargets[i])]

\* How the timer answers the tick() the constructors ask it for.  The Timer
\* class is not part of this repository: it may emit 'tick' inside the call,
\* so that the listeners run within the constructor, or on a later turn of
\* the event loop, after create has returned.
TimerTicks == {"inside", "later"}

\* The constructor: an empty set, and a timer that is started and asked for
\* a tick at once.  When the timer emits that tick inside the call, the
\* listener browses the set as it is then, the empty one, and the timer is
\* running when the constructor returns; otherwise the tick is still to
\* come and nothing has been handed to the transport.
Browser_constructor(tick) ==
    [targets |-> <<>>,
     sent    |-> IF tick = "inside" THEN browse(<<>>) ELSE <<>>,
     timer   |-> IF tick = "inside" THEN "running" ELSE "started"]

\* Browser.create with options.services an array.
Browser_create(services, tick) ==
    [targets |-> Set_addAll(Browser_constructor(tick).targets, services),
     sent    |-> Browser_constructor(tick).sent,
     timer   |-> Browser_constructor(tick).timer]

\* A subscribe that searches whether or not the target is already present.
Browser_subscribe_always_searches(targets, service) ==
    LET target == IF service = Star THEN ssdp_all ELSE service
    IN  [targets |-> Set_add(targets, target), sent |-> browse(<<target>>)]

\* Browser.subscribe.
Browser_subscribe(targets, service) ==
    LET target == IF service = Star THEN ssdp_all ELSE service
    IN  [targets |-> Set_add(targets, target),
         sent    |-> IF ~Set_has(targets, target) THEN browse(<<target>>) ELSE <<>>]

\* Browser.unsubscribe.
Browser_unsubscribe(targets, service) ==
    [targets |-> Set_delete(targets, service), result |-> Set_has(targets, service)]

\* Browser.subscriptions.
Browser_subscriptions(targets) == targets

BrowserEvent(event, target, payload, remote) ==
    [event |-> event, service |-> target, payload |-> payload, remote |-> remote]

\* A handle_payload that does not look at the subscriptions.
Browser_handle_payload_ungated(targets, target, payload, remote) ==
    IF payload.isReply
    THEN <<BrowserEvent("discover", target, payload, remote)>>
    ELSE LET nts == Payload_getHeader(payload, NTS)
         IN  IF nts = ssdp_alive \/ nts = ssdp_update
             THEN <<BrowserEvent("discover", target, payload, remote)>>
             ELSE IF nts = ssdp_byebye
             THEN <<BrowserEvent("withdraw", target, payload, remote)>>
             ELSE <<>>

\* A handle_payload that takes ssdp:update for a withdrawal.
Browser_handle_payload_update_withdraws(targets, target, payload, remote) ==
    IF Set_has(targets, target)
    THEN IF payload.isReply
         THEN <<BrowserEvent("discover", target, payload, remote)>>
         ELSE LET nts == Payload_getHeader(payload, NTS)
              IN  IF nts = ssdp_alive
                  THEN <<BrowserEvent("discover", target, payload, remote)>>
                  ELSE IF nts = ssdp_byebye \/ nts = ssdp_update
                  THEN <<BrowserEvent("withdraw", target, payload, remote)>>
                  ELSE <<>>
    ELSE <<>>

\* Browser.handle_payload: the events emitted.
\* A handle_payload that hears replies and byebyes only.
Browser_handle_payload_deaf_to_alive(targets, target, payload, remote) ==
    IF Set_has(targets, target)
    THEN IF payload.isReply
         THEN <<BrowserEvent("discover", target, payload, remote)>>
         ELSE IF Payload_getHeader(payload, NTS) = ssdp_byebye
         THEN <<BrowserEvent("withdraw", target, payload, remote)>>
         ELSE <<>>
    ELSE <<>>

Browser_handle_payload(targets, target, payload, remote) ==
    IF Set_has(targets, target)
    THEN IF payload.isReply
         THEN <<BrowserEvent("discover", target, payload, remote)>>
         ELSE LET nts == Payload_getHeader(payload, NTS)
              IN  IF nts = ssdp_alive \/ nts = ssdp_update
                  THEN <<BrowserEvent("discover", target, payload, remote)>>
                  ELSE IF nts = ssdp_byebye
                  THEN <<BrowserEvent("withdraw", target, payload, remote)>>
                  ELSE <<>>
    ELSE <<>>

\* The listeners the constructor puts on the socket: the events the Browser
\* emits for m, what the socket made of one inbound datagram.
Browser_onMessage(targets, m, remote) ==
        IF m.emit = "error" THEN <<ErrorEvent(m.type, m.raw)>>
        ELSE IF m.emit = "notification"
        THEN LET target == Payload_getHeader(m.payload, NT)
             IN  IF target # <<>>
                 THEN Browser_handle_payload(targets, target, m.payload, remote)
                 ELSE <<>>
        ELSE IF m.emit = "reply"
        THEN LET target == Payload_getHeader(m.payload, ST)
             IN  IF target # <<>>
                 THEN Browser_handle_payload(targets, target, m.payload, remote)
                 ELSE <<>>
        ELSE <<>>

\* The timer emits 'tick': the tick the constructor asked for, when the
\* timer is still "started", or a later one.
BrowserTick ==
    /\ browserTimer \in {"started", "running"}
    /\ browserTimer' = "running"
    /\ Step([name |-> "Browser.tick", immediate |-> browserTimer = "started"],
            browse(_searchTargets), <<>>)
    /\ UNCHANGED <<_searchTargets, browserSocket, advertiserVars>>

SearchNow ==
    /\ Step([name |-> "Browser.searchNow"], browse(_searchTargets), <<>>)
    /\ UNCHANGED <<browserVars, advertiserVars>>

Subscribe(service) ==
    LET r == Browser_subscribe(_searchTargets, service)
    IN  /\ _searchTargets' = r.targets
        /\ Step([name |-> "Browser.subscribe", service |-> service], r.sent, <<>>)
        /\ UNCHANGED <<browserTimer, browserSocket, advertiserVars>>

Unsubscribe(service) ==
    LET r == Browser_unsubscribe(_searchTargets, service)
    IN  /\ _searchTargets' = r.targets
        /\ Step([name |-> "Browser.unsubscribe", service |-> service,
                 result |-> r.result], <<>>, <<>>)
        /\ UNCHANGED <<browserTimer, browserSocket, advertiserVars>>

BrowserDestroy ==
    /\ browserTimer' = "destroyed"
    /\ browserSocket' = "destroyed"
    /\ Step([name |-> "Browser.destroy"], <<>>, <<>>)
    /\ UNCHANGED <<_searchTargets, advertiserVars>>

\* What the socket makes of each datagram, worked out once.
BrowserDispatch ==
    [message \in BrowserInbound |->
        [remote \in BrowserRemotes |-> SSDP_onMessage(message, remote)]]

BrowserReceive(message, remote) ==
    /\ browserSocket = "open"
    /\ Step([name |-> "Browser.message", message |-> message, remote |-> remote],
            <<>>,
            Browser_onMessage(_searchTargets, BrowserDispatch[message][remote], remote))
    /\ UNCHANGED <<browserVars, advertiserVars>>

\* send_goodbyes before destroy is called: stage is where it stands ("none",
\* then "uuid", "root", "services" after the byebye of that kind, "emitted"
\* when it has emitted its errors and returned, "done" when the callback of
\* destroy has run), next the position of its iterator in the table,
\* errors its local array of the same name, said the service types it has
\* sent a byebye for so far.
NoGoodbyes == [stage |-> "none", next |-> 1, errors |-> <<>>, said |-> <<>>]

(***************************************************************************)
(* Advertiser.                                                             *)
(***************************************************************************)
\* The uuid option the Advertiser was created with.
Uuid == <<"U">>

uuid_U == <<"uuid", ":">> \o Uuid

\* `uuid:${this.uuid}::${service}`
UsnOf(service) == <<"uuid", ":">> \o Uuid \o <<":", ":">> \o service

\* The service strings the Advertiser's callers use: one of them is a
\* target the Advertiser also answers on its own.
AdvertiserServices == {urn_test_1, upnp_rootdevice}

\* The HeadersInit objects the Advertiser's callers use.
HeaderInits ==
    { EmptyHeaders,
      [k \in {<<"a">>, <<"usn">>} |-> IF k = <<"a">> THEN <<"1">> ELSE <<"custom">>] }

\* The addresses the authentication hook of the model approves.
ApprovedAddresses == { <<"10.0.0.1">> }

authenticationProvider(ipAddress) == ipAddress \in ApprovedAddresses

\* The addresses for which the authentication hook fails: it throws, or the
\* promise it returns rejects.
FailingAddresses == { <<"10.0.0.4">> }

authenticationFails(ipAddress) == ipAddress \in FailingAddresses

\* new Headers(init) for a record of valid names and values.
RECURSIVE Headers_fill(_, _, _)
Headers_fill(headers, init, names) ==
    IF names = {} THEN headers
    ELSE LET n == CHOOSE x \in names : TRUE
         IN  Headers_fill(Headers_set(headers, n, init[n]), init, names \ {n})

Headers_new(init) == Headers_fill(EmptyHeaders, init, DOMAIN init)

AdvertiserEvent(target, payload, remote) ==
    [event |-> "search", target |-> target, payload |-> payload, remote |-> remote]

UnknownTargetEvent(target) ==
    [event |-> "error", type |-> "Unknown target or service", raw |-> target]

\* Advertiser.notify_root_devices: the notifications handed to the transport.
Advertiser_notify_root_devices ==
    << SSDP_notify(upnp_rootdevice, Headers_new([k \in {USN} |-> UsnOf(upnp_rootdevice)])),
       SSDP_notify(uuid_U, Headers_new([k \in {USN} |-> uuid_U])) >>

\* A notify that leaves a USN of the caller's alone.
Advertiser_notify_keeps_usn(services) ==
    LET stamped == [i \in 1..Len(services) |->
                      <<services[i][1],
                        IF Headers_has(services[i][2], USN)
                        THEN services[i][2]
                        ELSE Headers_set(services[i][2], USN, UsnOf(services[i][1]))>>]
    IN  [services |-> stamped,
         sent     |-> [i \in 1..Len(stamped) |->
                          SSDP_notify(stamped[i][1], stamped[i][2])]]

\* Advertiser.notify: it sets USN on the Headers objects of the map it is
\* given, so it returns the map as it leaves it, and the notifications.
Advertiser_notify(services) ==
    LET stamped == [i \in 1..Len(services) |->
                      <<services[i][1],
                        Headers_set(services[i][2], USN, UsnOf(services[i][1]))>>]
    IN  [services |-> stamped,
         sent     |-> [i \in 1..Len(stamped) |->
                          SSDP_notify(stamped[i][1], stamped[i][2])]]

\* Advertiser.send_goodbye.
Advertiser_send_goodbye(service) ==
    SSDP_bye(service, Headers_new([k \in {USN} |-> UsnOf(service)]))

\* A reply for the first entry of the map only.
Advertiser_reply_first_only(request, services) ==
    [i \in 1..(IF services = <<>> THEN 0 ELSE 1) |->
        SSDP_reply(request,
            WithHeaders(
                CopyHeaders(Reply, services[i][2], DOMAIN services[i][2]),
                << <<ST, services[i][1]>>, <<USN, UsnOf(services[i][1])>> >>))]

\* A reply that leaves out the headers of the entry.
Advertiser_reply_bare(request, services) ==
    [i \in 1..Len(services) |->
        SSDP_reply(request,
            WithHeaders(Reply,
                << <<ST, services[i][1]>>, <<USN, UsnOf(services[i][1])>> >>))]

\* A reply that answers with the target the search asked for.
Advertiser_reply_echoes_target(request, services) ==
    [i \in 1..Len(services) |->
        SSDP_reply(request,
            WithHeaders(
                CopyHeaders(Reply, services[i][2], DOMAIN services[i][2]),
                << <<ST, Payload_getHeader(request, ST)>>,
                   <<USN, UsnOf(services[i][1])>> >>))]

\* Advertiser.reply: one Reply per entry of the map it is given.
Advertiser_reply(request, services) ==
    [i \in 1..Len(services) |->
        SSDP_reply(request,
            WithHeaders(
                CopyHeaders(Reply, services[i][2], DOMAIN services[i][2]),
                << <<ST, services[i][1]>>, <<USN, UsnOf(services[i][1])>> >>))]

\* The constructor: an empty table, and a timer that is started and asked
\* for a tick at once.  When the timer emits that tick inside the call, the
\* two listeners run on the table as it is then, the empty one: the two
\* identity notifications are handed to the transport and the timer is
\* running when the constructor returns; otherwise the tick is still to
\* come and nothing has been handed to the transport.
Advertiser_constructor(tick) ==
    [services |-> <<>>,
     sent     |-> IF tick = "inside"
                  THEN Advertiser_notify_root_devices \o Advertiser_notify(<<>>).sent
                  ELSE <<>>,
     timer    |-> IF tick = "inside" THEN "running" ELSE "started"]

\* Advertiser.create with options.services = the pairs <<service, init>>,
\* in the order of the object's keys.
RECURSIVE Advertiser_fill(_, _)
Advertiser_fill(services, pairs) ==
    IF pairs = <<>> THEN services
    ELSE Advertiser_fill(Map_set(services, pairs[1][1], Headers_new(pairs[1][2])),
                         Tail(pairs))

Advertiser_create(pairs, tick) ==
    [services |-> Advertiser_fill(Advertiser_constructor(tick).services, pairs),
     sent     |-> Advertiser_constructor(tick).sent,
     timer    |-> Advertiser_constructor(tick).timer]

\* Advertiser.services.
Advertiser_services(services) == services

\* Advertiser.announce.
Advertiser_announce(services, service, init) ==
    LET headers  == Headers_new(init)
        notified == Advertiser_notify(<< <<service, headers>> >>)
    IN  IF ~Map_has(services, service)
        THEN [services |-> Map_set(services, service, notified.services[1][2]),
              sent     |-> notified.sent]
        ELSE [services |-> Map_set(services, service, headers), sent |-> <<>>]

\* A withdraw that says goodbye whether or not the service was there.
Advertiser_withdraw_always_byebye(services, service) ==
    [services |-> Map_delete(services, service),
     sent     |-> <<Advertiser_send_goodbye(service)>>,
     result   |-> Map_has(services, service)]

\* A withdraw that deletes the entry and says nothing.
Advertiser_withdraw_silent(services, service) ==
    [services |-> Map_delete(services, service),
     sent     |-> <<>>,
     result   |-> Map_has(services, service)]

\* Advertiser.withdraw.
Advertiser_withdraw(services, service) ==
    IF Map_has(services, service)
    THEN [services |-> Map_delete(services, service),
          sent     |-> <<Advertiser_send_goodbye(service)>>,
          result   |-> TRUE]
    ELSE [services |-> services, sent |-> <<>>, result |-> FALSE]

\* A tick that leaves out the identity notifications.
Advertiser_announceNow_without_identity(services) ==
    [services |-> Advertiser_notify(services).services,
     sent     |-> Advertiser_notify(services).sent]

\* Advertiser.announceNow, and a tick of the timer.
Advertiser_announceNow(services) ==
    [services |-> Advertiser_notify(services).services,
     sent     |-> Advertiser_notify_root_devices \o Advertiser_notify(services).sent]

\* Advertiser.handle_payload up to the call of the authentication hook:
\* whether the hook is asked at all.
Advertiser_handle_payload_gate(payload) ==
    ~( Payload_getHeader(payload, MAN) # ssdp_discover
       \/ Payload_getHeader(payload, ST) = <<>> )

\* A handler that hands its replies to the transport before it tells its
\* listeners of the search.
Reply_then_emit(emitted, replies) ==
    [events |-> emitted,
     sent   |-> replies,
     trace  |-> [i \in 1..Len(replies) |-> "send"] \o [i \in 1..Len(emitted) |-> "emit"]]

\* A branch of handle_payload: this.emit(...) first, then reply(...), which
\* hands one Reply after the other to the transport.  The trace is the
\* order of the emit and send calls.
Emit_then_reply(emitted, replies) ==
    [events |-> emitted,
     sent   |-> replies,
     trace  |-> [i \in 1..Len(emitted) |-> "emit"] \o [i \in 1..Len(replies) |-> "send"]]

\* A handler that keeps quiet about a target it does not know.
Advertiser_handle_payload_unknown_silent(services, payload, remote, approved) ==
    LET target == Payload_getHeader(payload, ST)
        found  == [events |-> <<AdvertiserEvent(target, payload, remote)>>]
    IN  IF ~approved THEN Emit_then_reply(<<>>, <<>>)
        ELSE IF target = ssdp_all
        THEN Emit_then_reply(found.events, Advertiser_reply(payload, services))
        ELSE IF target \in {upnp_rootdevice, uuid_U}
        THEN Emit_then_reply(found.events,
                        Advertiser_reply(payload, << <<target, EmptyHeaders>> >>))
        ELSE IF Map_has(services, target)
        THEN Emit_then_reply(found.events,
                        Advertiser_reply(payload,
                             << <<target, Map_get(services, target)>> >>))
        ELSE Emit_then_reply(<<>>, <<>>)

\* A handler that asks for the hook's approval for table services only.
Advertiser_handle_payload_identity_unauthenticated(services, payload, remote, approved) ==
    LET target == Payload_getHeader(payload, ST)
        found  == [events |-> <<AdvertiserEvent(target, payload, remote)>>]
    IN  IF target \in {upnp_rootdevice, uuid_U}
        THEN Emit_then_reply(found.events,
                        Advertiser_reply(payload, << <<target, EmptyHeaders>> >>))
        ELSE IF ~approved THEN Emit_then_reply(<<>>, <<>>)
        ELSE IF target = ssdp_all
        THEN Emit_then_reply(found.events, Advertiser_reply(payload, services))
        ELSE IF Map_has(services, target)
        THEN Emit_then_reply(found.events,
                        Advertiser_reply(payload,
                             << <<target, Map_get(services, target)>> >>))
        ELSE Emit_then_reply(<<UnknownTargetEvent(target)>>, <<>>)

\* A handler that looks the target up in the table before anything else.
Advertiser_handle_payload_table_first(services, payload, remote, approved) ==
    LET target == Payload_getHeader(payload, ST)
        found  == [events |-> <<AdvertiserEvent(target, payload, remote)>>]
    IN  IF ~approved THEN Emit_then_reply(<<>>, <<>>)
        ELSE IF Map_has(services, target)
        THEN Emit_then_reply(found.events,
                        Advertiser_reply(payload,
                             << <<target, Map_get(services, target)>> >>))
        ELSE IF target = ssdp_all
        THEN Emit_then_reply(found.events, Advertiser_reply(payload, services))
        ELSE IF target \in {upnp_rootdevice, uuid_U}
        THEN Emit_then_reply(found.events,
                        Advertiser_reply(payload, << <<target, EmptyHeaders>> >>))
        ELSE Emit_then_reply(<<UnknownTargetEvent(target)>>, <<>>)

\* Advertiser.handle_payload once the hook has answered: the events
\* emitted and the replies handed to the transport.
Advertiser_handle_payload(services, payload, remote, approved) ==
    LET target == Payload_getHeader(payload, ST)
        found  == [events |-> <<AdvertiserEvent(target, payload, remote)>>]
    IN  IF ~approved THEN Emit_then_reply(<<>>, <<>>)
        ELSE IF target = ssdp_all
        THEN Emit_then_reply(found.events, Advertiser_reply(payload, services))
        ELSE IF target = upnp_rootdevice
        THEN Emit_then_reply(found.events,
                        Advertiser_reply(payload, << <<target, EmptyHeaders>> >>))
        ELSE IF target = uuid_U
        THEN Emit_then_reply(found.events,
                        Advertiser_reply(payload, << <<target, EmptyHeaders>> >>))
        ELSE IF Map_has(services, target)
        THEN Emit_then_reply(found.events,
                        Advertiser_reply(payload,
                             << <<target, Map_get(services, target)>> >>))
        ELSE Emit_then_reply(<<UnknownTargetEvent(target)>>, <<>>)

\* The listeners the constructor puts on the socket, for m, what the socket
\* made of one inbound datagram: the events emitted at once, and the
\* handle_payload call, if any, that now waits for the authentication hook.
Advertiser_onMessage(m, remote) ==
        IF m.emit = "error"
        THEN [events |-> <<ErrorEvent(m.type, m.raw)>>, waiting |-> {}]
        ELSE IF m.emit = "search" /\ Advertiser_handle_payload_gate(m.payload)
        THEN [events |-> <<>>, waiting |-> {[payload |-> m.payload, remote |-> remote]}]
        ELSE [events |-> <<>>, waiting |-> {}]

\* The lines of the M-SEARCH datagrams the Advertiser's socket may receive.
ManLines == { <<>>, Line(MAN, ssdp_discover), Line(MAN, <<"ssdp", ":", "discover">>) }

SearchStLines ==
    { <<>>, Line(ST, <<>>), Line(ST, ssdp_all), Line(ST, upnp_rootdevice),
      Line(<<"st">>, uuid_U), Line(ST, urn_test_1), Line(ST, urn_test_2) }

\* The datagrams the Advertiser's socket may receive.
AdvertiserInbound ==
    {Datagram(SearchLine, Line(MAN, ssdp_discover) \o st) : st \in SearchStLines}
    \cup {Datagram(SearchLine, man \o Line(ST, urn_test_1)) :
            man \in ManLines \ {Line(MAN, ssdp_discover)}}
    \cup { Datagram(SearchLine, BadLine \o Line(ST, urn_test_1)),
           Datagram(SearchLine, Line(MAN, ssdp_discover) \o Line(ST, urn_test_1) \o BadLine),
           Datagram(NotifyLine, Line(NT, urn_test_1) \o Line(NTS, ssdp_alive)),
           Datagram(NotifyLine, BadLine) }

\* The datagrams that come from an address the hook does not approve.
UnapprovedInbound ==
    {Datagram(SearchLine, Line(MAN, ssdp_discover) \o st) :
        st \in {Line(ST, ssdp_all), Line(ST, upnp_rootdevice), Line(ST, urn_test_1)}}

\* Who sends what to the Advertiser.
AdvertiserArrivals ==
    {[message |-> m, remote |-> r] :
        m \in AdvertiserInbound, r \in {x \in Remotes : authenticationProvider(x.address)}}
    \cup {[message |-> m, remote |-> r] :
        m \in UnapprovedInbound, r \in {x \in Remotes : ~authenticationProvider(x.address)}}

\* What the socket makes of each datagram, worked out once.
AdvertiserDispatch ==
    [a \in AdvertiserArrivals |-> SSDP_onMessage(a.message, a.remote)]

\* The timer emits 'tick': the tick the constructor asked for, when the
\* timer is still "started", or a later one.
AdvertiserTick ==
    /\ advertiserTimer \in {"started", "running"}
    /\ advertiserTimer' = "running"
    /\ LET r == Advertiser_announceNow(_services)
       IN  /\ _services' = r.services
           /\ Step([name |-> "Advertiser.tick",
                    immediate |-> advertiserTimer = "started"], r.sent, <<>>)
    /\ UNCHANGED <<browserVars, isDestroyed, advertiserSocket, pending, goodbyes>>

AnnounceNow ==
    /\ LET r == Advertiser_announceNow(_services)
       IN  /\ _services' = r.services
           /\ Step([name |-> "Advertiser.announceNow"], r.sent, <<>>)
    /\ UNCHANGED <<browserVars, isDestroyed, advertiserTimer, advertiserSocket,
                   pending, goodbyes>>

Announce(service, init) ==
    LET r == Advertiser_announce(_services, service, init)
    IN  /\ _services' = r.services
        /\ Step([name |-> "Advertiser.announce", service |-> service,
                 headers |-> init], r.sent, <<>>)
        /\ UNCHANGED <<browserVars, isDestroyed, advertiserTimer, advertiserSocket,
                       pending, goodbyes>>

\* The position of a key in the table, 0 when absent.
Map_indexOf(map, key) ==
    IF Map_has(map, key) THEN CHOOSE i \in 1..Len(map) : map[i][1] = key ELSE 0

\* A Map iterator that stands before entry `next` still stands before the
\* same entry when an earlier entry is deleted.  An entry that is deleted
\* and set again goes to the end of the map, where the iterator has yet to
\* come.
Iterator_afterDelete(next, index) ==
    IF index # 0 /\ index < next THEN next - 1 ELSE next

Withdraw(service) ==
    LET r == Advertiser_withdraw(_services, service)
    IN  /\ _services' = r.services
        /\ goodbyes' = [goodbyes EXCEPT
               !.next = IF goodbyes.stage = "services"
                        THEN Iterator_afterDelete(@, Map_indexOf(_services, service))
                        ELSE @]
        /\ Step([name |-> "Advertiser.withdraw", service |-> service,
                 result |-> r.result], r.sent, <<>>)
        /\ UNCHANGED <<browserVars, isDestroyed, advertiserTimer, advertiserSocket,
                       pending>>

\* An error the transport reports, as a value, for the byebye of a service.
SendError(service) == [event |-> "error", type |-> "send", raw |-> service]

\* The byebye for the identity uuid:<uuid>.
Advertiser_identity_goodbye ==
    SSDP_bye(uuid_U, Headers_new([k \in {USN} |-> uuid_U]))

\* Advertiser.destroy: send_goodbyes runs up to its first await, that is,
\* it hands the byebye for uuid:<uuid> to the transport.
AdvertiserDestroy ==
    /\ IF ~isDestroyed
       THEN /\ isDestroyed' = TRUE
            /\ goodbyes' = [stage |-> "uuid", next |-> 1, errors |-> <<>>,
                            said |-> <<uuid_U>>]
            /\ Step([name |-> "Advertiser.destroy"],
                    <<Advertiser_identity_goodbye>>, <<>>)
       ELSE /\ UNCHANGED <<isDestroyed, goodbyes>>
            /\ Step([name |-> "Advertiser.destroy"], <<>>, <<>>)
    /\ UNCHANGED <<browserVars, _services, advertiserTimer, advertiserSocket, pending>>

\* The errors array once the awaited byebye, the last one sent, has
\* resolved, with an error (failed) or with none.
Goodbye_errors(failed) ==
    IF failed
    THEN Append(goodbyes.errors, SendError(goodbyes.said[Len(goodbyes.said)]))
    ELSE goodbyes.errors

\* How many byebyes one farewell may hand to the transport.  The loop of
\* send_goodbyes goes on for as long as the caller keeps setting entries
\* anew behind its back.
MaxGoodbyes == 4

\* send_goodbyes resumes after an await, the awaited byebye having resolved
\* with or without an error: the next byebye is handed to the transport,
\* or, past the last entry of the table, the errors are emitted and
\* send_goodbyes returns.
AdvertiserGoodbye(failed) ==
    /\ goodbyes.stage \in {"uuid", "root", "services"}
    /\ IF goodbyes.stage = "uuid"
       THEN /\ goodbyes' = [goodbyes EXCEPT !.stage = "root",
                               !.errors = Goodbye_errors(failed),
                               !.said = Append(@, upnp_rootdevice)]
            /\ Step([name |-> "Advertiser.send_goodbyes"],
                    <<Advertiser_send_goodbye(upnp_rootdevice)>>, <<>>)
            /\ UNCHANGED <<advertiserTimer, advertiserSocket>>
       ELSE IF goodbyes.next <= Len(_services)
       THEN /\ Len(goodbyes.said) < MaxGoodbyes
            /\ goodbyes' = [stage  |-> "services",
                            next   |-> goodbyes.next + 1,
                            errors |-> Goodbye_errors(failed),
                            said   |-> Append(goodbyes.said,
                                              _services[goodbyes.next][1])]
            /\ Step([name |-> "Advertiser.send_goodbyes"],
                    <<Advertiser_send_goodbye(_services[goodbyes.next][1])>>, <<>>)
            /\ UNCHANGED <<advertiserTimer, advertiserSocket>>
       ELSE /\ goodbyes' = [goodbyes EXCEPT !.stage = "emitted",
                               !.errors = Goodbye_errors(failed)]
            /\ Step([name |-> "Advertiser.send_goodbyes"], <<>>,
                    Goodbye_errors(failed))
            /\ UNCHANGED <<advertiserTimer, advertiserSocket>>
    /\ UNCHANGED <<browserVars, _services, isDestroyed, pending>>

\* The .finally callback of destroy, which runs once the promise of
\* send_goodbyes has settled, on a later turn than the one that emitted the
\* errors: the timer is stopped and the socket released.
AdvertiserRelease ==
    /\ goodbyes.stage = "emitted"
    /\ goodbyes' = [goodbyes EXCEPT !.stage = "done"]
    /\ advertiserTimer' = "destroyed"
    /\ advertiserSocket' = "destroyed"
    /\ Step([name |-> "Advertiser.destroy.finally"], <<>>, <<>>)
    /\ UNCHANGED <<browserVars, _services, isDestroyed, pending>>

\* The searches that reach the Advertiser from an address the hook fails
\* for, and what the socket makes of them.
FailingRemote == [address |-> <<"10.0.0.4">>, port |-> 50004]

FailingArrivals ==
    {[message |-> Datagram(SearchLine, Line(MAN, ssdp_discover) \o st),
      remote  |-> FailingRemote] :
        st \in {Line(ST, ssdp_all), Line(ST, upnp_rootdevice), Line(ST, urn_test_1)}}

FailingDispatch ==
    [a \in FailingArrivals |-> SSDP_onMessage(a.message, a.remote)]

Advertiser_socket(arrival) ==
    IF arrival \in FailingArrivals
    THEN FailingDispatch[arrival]
    ELSE AdvertiserDispatch[arrival]

AdvertiserReceive(arrival) ==
    /\ advertiserSocket = "open"
    /\ LET r == Advertiser_onMessage(Advertiser_socket(arrival), arrival.remote)
       IN  /\ BagCardinality(pending (+) SetToBag(r.waiting)) <= MaxPending
           /\ pending' = pending (+) SetToBag(r.waiting)
           /\ Step([name |-> "Advertiser.message", message |-> arrival.message,
                    remote |-> arrival.remote], <<>>, r.events)
    /\ UNCHANGED <<browserVars, _services, isDestroyed, advertiserTimer,
                   advertiserSocket, goodbyes>>

(***************************************************************************)
(* The messages a Browser subscribed to urn:test:1 and an Advertiser that  *)
(* offers it exchange, and what the receiving side makes of each of them,  *)
(* worked out once.                                                        *)
(***************************************************************************)
NetService == urn_test_1

\* The headers the Advertiser announces it with: one of its own and a USN
\* of the caller's.
NetInits == {init \in HeaderInits : DOMAIN init # {}}

\* The two roles as the other one's socket reports them.
BrowserPeer == [address |-> <<"10.0.0.1">>, port |-> 50001]
AdvertiserPeer == [address |-> <<"10.0.0.3">>, port |-> 1900]

\* The datagram of a message handed to the transport: its text, and the
\* role that receives it.  A message without a destination goes to the
\* multicast group, where the peer listens; a Reply goes to the address it
\* is sent to, the Browser's or nobody's.
Datagram_of(m) ==
    [to   |-> IF m.dstAddress = <<>>
              THEN IF m.message.method = "m-search" THEN "advertiser" ELSE "browser"
              ELSE IF m.dstAddress = BrowserPeer.address /\ m.dstPort = BrowserPeer.port
              THEN "browser"
              ELSE "nobody",
     data |-> Payload_toString(m.message)]

\* Everything the two hand to the transport.
WireMessages ==
    LET entries == {Headers_new(init) : init \in NetInits}
        request == Search_decode(Payload_toString(SSDP_search(NetService).message),
                                 BrowserPeer.address, BrowserPeer.port)
    IN  {SSDP_search(NetService)}
        \cup {Advertiser_notify_root_devices[i] : i \in 1..2}
        \cup {Advertiser_notify(<< <<NetService, h>> >>).sent[1] : h \in entries}
        \cup {Advertiser_send_goodbye(NetService)}
        \cup {Advertiser_reply(request, << <<NetService, h>> >>)[1] : h \in entries}

\* What the two hand to the transport when the Browser searches for
\* ssdp:all and the services are announced without headers of their own.
AllMessages ==
    LET request == Search_decode(Payload_toString(SSDP_search(ssdp_all).message),
                                 BrowserPeer.address, BrowserPeer.port)
        created == {<< <<service, Headers_new(EmptyHeaders)>> >> :
                        service \in {urn_test_1, ssdp_all}}
        tables  == created \cup {Advertiser_notify(t).services : t \in created}
    IN  {SSDP_search(ssdp_all)}
        \cup {Advertiser_notify_root_devices[i] : i \in 1..2}
        \cup {Advertiser_notify(t).sent[1] : t \in tables}
        \cup {Advertiser_reply(request, t)[1] : t \in tables}

\* Their datagrams, worked out once.
Datagrams == [m \in WireMessages |-> Datagram_of(m)]

AllDatagrams == [m \in AllMessages |-> Datagram_of(m)]

Wire(m) ==
    IF m \in WireMessages THEN Datagrams[m]
    ELSE IF m \in AllMessages THEN AllDatagrams[m]
    ELSE Datagram_of(m)

\* What each socket makes of them, worked out once.
NetworkDispatch ==
    [m \in WireMessages |->
        SSDP_onMessage(Datagrams[m].data,
                       IF Datagrams[m].to = "browser" THEN AdvertiserPeer ELSE BrowserPeer)]

AllDispatch ==
    [m \in AllMessages |->
        SSDP_onMessage(AllDatagrams[m].data,
                       IF AllDatagrams[m].to = "browser" THEN AdvertiserPeer ELSE BrowserPeer)]

Socket_receive(m, remote) ==
    IF m \in WireMessages THEN NetworkDispatch[m]
    ELSE IF m \in AllMessages THEN AllDispatch[m]
    ELSE SSDP_onMessage(Wire(m).data, remote)

\* What the Browser, subscribed to NetService, makes of them, worked out
\* once.
BrowserHears ==
    [m \in WireMessages |->
        Browser_onMessage(<<NetService>>, NetworkDispatch[m], AdvertiserPeer)]

\* What the Browser, subscribed to ssdp:all, makes of those.
BrowserHearsAll ==
    [m \in AllMessages |->
        Browser_onMessage(<<ssdp_all>>, AllDispatch[m], AdvertiserPeer)]

\* The 'notification' and 'reply' listeners of the Browser on a datagram
\* its socket received.
Browser_hear(targets, m) ==
    IF targets = <<NetService>> /\ m \in WireMessages
    THEN BrowserHears[m]
    ELSE IF targets = <<ssdp_all>> /\ m \in AllMessages
    THEN BrowserHearsAll[m]
    ELSE Browser_onMessage(targets, Socket_receive(m, AdvertiserPeer), AdvertiserPeer)

\* The tables the Advertiser goes through, before and after notify has
\* stamped the entry.
NetTables ==
    LET created == {<< <<NetService, Headers_new(init)>> >> : init \in NetInits}
    IN  {<<>>} \cup created \cup {Advertiser_notify(t).services : t \in created}

NetWaiting == Advertiser_onMessage(NetworkDispatch[SSDP_search(NetService)], BrowserPeer).waiting

AuthenticatedDispatch ==
    [services \in NetTables, waiting \in NetWaiting |->
        Advertiser_handle_payload(services, waiting.payload, waiting.remote,
                                  authenticationProvider(waiting.remote.address))]

\* handle_payload once the authentication hook has answered.
Advertiser_resume(services, waiting) ==
    IF services \in NetTables /\ waiting \in NetWaiting
    THEN AuthenticatedDispatch[services, waiting]
    ELSE Advertiser_handle_payload(services, waiting.payload, waiting.remote,
                                   authenticationProvider(waiting.remote.address))

\* handle_payload when the awaited hook fails: the await throws, nothing
\* in handle_payload catches it, and the promise handle_payload returned
\* rejects.  The 'search' listener of the constructor has dropped that
\* promise, so the rejection is handled by nobody.
Advertiser_handle_payload_rejected ==
    [events |-> <<>>, sent |-> <<>>, trace |-> <<>>, rejection |-> "unhandled"]

\* A handle_payload that goes on with the table as it was before the last
\* step, not as it is when the hook answers.
AdvertiserAuthenticated_stale(waiting) ==
    LET approved == authenticationProvider(waiting.remote.address)
        r == Advertiser_resume(before.services, waiting)
    IN  /\ pending' = pending (-) SetToBag({waiting})
        /\ Step([name |-> "Advertiser.handle_payload", payload |-> waiting.payload,
                 remote |-> waiting.remote, trace |-> r.trace,
                 approved |-> approved],
                r.sent, r.events)
        /\ UNCHANGED <<browserVars, _services, isDestroyed, advertiserTimer,
                       advertiserSocket, goodbyes>>

\* The authentication hook has answered, or failed, for one waiting
\* handle_payload.
AdvertiserAuthenticated(waiting) ==
    /\ pending' = pending (-) SetToBag({waiting})
    /\ IF authenticationFails(waiting.remote.address)
       THEN LET r == Advertiser_handle_payload_rejected
            IN  Step([name |-> "Advertiser.handle_payload", payload |-> waiting.payload,
                      remote |-> waiting.remote, trace |-> r.trace,
                      rejection |-> r.rejection],
                     r.sent, r.events)
       ELSE LET approved == authenticationProvider(waiting.remote.address)
                r == Advertiser_resume(_services, waiting)
            IN  Step([name |-> "Advertiser.handle_payload", payload |-> waiting.payload,
                      remote |-> waiting.remote, trace |-> r.trace,
                      approved |-> approved],
                     r.sent, r.events)
    /\ UNCHANGED <<browserVars, _services, isDestroyed, advertiserTimer,
                   advertiserSocket, goodbyes>>

\* Both roles are built on the same Timer class: the tick asked for at
\* construction is still to come for both, or for neither.
OneTimer == (browserTimer = "started") <=> (advertiserTimer = "started")

\* An Advertiser created with no services, which nothing has called since.
AdvertiserIdle ==
    /\ \E tick \in TimerTicks :
          /\ _services = Advertiser_create(<<>>, tick).services
          /\ advertiserTimer = Advertiser_create(<<>>, tick).timer
    /\ isDestroyed = FALSE
    /\ advertiserSocket = "open"
    /\ pending = EmptyBag
    /\ goodbyes = NoGoodbyes

\* A Browser created with no targets, which nothing has called since.
BrowserIdle ==
    /\ \E tick \in TimerTicks :
          /\ _searchTargets = Browser_create(<<>>, tick).targets
          /\ browserTimer = Browser_create(<<>>, tick).timer
    /\ browserSocket = "open"

\* The Browser after create, beside an idle Advertiser; the log holds what
\* the creation of the two handed to the transport.
InitBrowser ==
    /\ \E services \in SeqUpTo(BrowserTargets, MaxCreate), tick \in TimerTicks :
          /\ _searchTargets = Browser_create(services, tick).targets
          /\ browserTimer = Browser_create(services, tick).timer
          /\ op = [name |-> "Browser.create", services |-> services, tick |-> tick]
          /\ sent = Browser_create(services, tick).sent
                        \o Advertiser_create(<<>>, tick).sent
    /\ before = [targets |-> <<>>, services |-> <<>>, pending |-> EmptyBag]
    /\ events = <<>>
    /\ browserSocket = "open"
    /\ AdvertiserIdle
    /\ OneTimer
    /\ network = NoPeer

NextBrowser ==
    \/ BrowserTick
    \/ SearchNow
    \/ \E service \in BrowserTargets : Subscribe(service)
    \/ \E service \in BrowserTargets : Unsubscribe(service)
    \/ BrowserDestroy
    \/ \E message \in BrowserInbound, remote \in BrowserRemotes :
          BrowserReceive(message, remote)

SpecBrowser == InitBrowser /\ [][NextBrowser]_vars

\* The Advertiser after create, and the log of that first step.
AdvertiserCreated ==
    /\ \E pairs \in SeqUpTo(AdvertiserServices \X HeaderInits, MaxCreate),
          tick \in TimerTicks :
          /\ _services = Advertiser_create(pairs, tick).services
          /\ advertiserTimer = Advertiser_create(pairs, tick).timer
          /\ op = [name |-> "Advertiser.create", services |-> pairs, tick |-> tick]
          /\ sent = Advertiser_create(pairs, tick).sent
    /\ before = [targets |-> <<>>, services |-> <<>>, pending |-> EmptyBag]
    /\ events = <<>>
    /\ isDestroyed = FALSE
    /\ advertiserSocket = "open"
    /\ pending = EmptyBag
    /\ goodbyes = NoGoodbyes

InitAdvertiser == AdvertiserCreated /\ BrowserIdle /\ OneTimer /\ network = NoPeer

\* The Advertiser's public operations and its timer.
NextAdvertiser ==
    \/ AdvertiserTick
    \/ AnnounceNow
    \/ \E service \in AdvertiserServices, init \in HeaderInits : Announce(service, init)
    \/ \E service \in AdvertiserServices : Withdraw(service)
    \/ AdvertiserDestroy

SpecAdvertiser == InitAdvertiser /\ [][NextAdvertiser]_vars

\* The Advertiser's destruction.  announce and withdraw do not look at the
\* destroyed flag, so the caller's calls go on before, during and after the
\* farewell; the timer goes on ticking until the callback of destroy stops
\* it.
NextDestroy ==
    \/ \E service \in AdvertiserServices : Announce(service, EmptyHeaders)
    \/ \E service \in AdvertiserServices : Withdraw(service)
    \/ AdvertiserTick
    \/ AdvertiserDestroy
    \/ \E failed \in BOOLEAN : AdvertiserGoodbye(failed)
    \/ AdvertiserRelease

SpecDestroy == InitAdvertiser /\ [][NextDestroy]_vars

(***************************************************************************)
(* The first interval after construction.  Both roles have been created    *)
(* with an initial set; the tick that the constructor asked the timer for  *)
(* is still to come, and the caller may act before it does.                *)
(***************************************************************************)
CreatedServices == << <<urn_test_1, [k \in {<<"a">>} |-> <<"1">>]>> >>

CreatedTargets == <<urn_test_1, ssdp_all>>

InitConstruction ==
    /\ \E tick \in TimerTicks :
          /\ _searchTargets = Browser_create(CreatedTargets, tick).targets
          /\ browserTimer = Browser_create(CreatedTargets, tick).timer
          /\ _services = Advertiser_create(CreatedServices, tick).services
          /\ advertiserTimer = Advertiser_create(CreatedServices, tick).timer
          /\ op = [name |-> "Advertiser.create", services |-> CreatedServices,
                   tick |-> tick]
          /\ sent = Browser_create(CreatedTargets, tick).sent
                        \o Advertiser_create(CreatedServices, tick).sent
    /\ browserSocket = "open"
    /\ isDestroyed = FALSE
    /\ advertiserSocket = "open"
    /\ pending = EmptyBag
    /\ goodbyes = NoGoodbyes
    /\ events = <<>>
    /\ before = [targets |-> <<>>, services |-> <<>>, pending |-> EmptyBag]
    /\ network = NoPeer

NextConstruction ==
    \/ BrowserTick
    \/ AdvertiserTick
    \/ \E service \in AdvertiserServices, init \in HeaderInits : Announce(service, init)
    \/ \E service \in AdvertiserServices : Withdraw(service)
    \/ \E service \in BrowserTargets : Subscribe(service)
    \/ \E service \in BrowserTargets : Unsubscribe(service)
    \/ BrowserDestroy

SpecConstruction == InitConstruction /\ [][NextConstruction]_vars

\* The Advertiser's answers to inbound datagrams, while its table changes.
NextInbound ==
    \/ \E arrival \in AdvertiserArrivals : AdvertiserReceive(arrival)
    \/ \E waiting \in BagToSet(pending) : AdvertiserAuthenticated(waiting)
    \/ \E service \in AdvertiserServices, init \in HeaderInits : Announce(service, init)
    \/ \E service \in AdvertiserServices : Withdraw(service)

SpecInbound == InitAdvertiser /\ [][NextInbound]_vars

(***************************************************************************)
(* A Browser and an Advertiser on one network.  The Browser is subscribed  *)
(* to urn:test:1 and stays so; the Advertiser announces and withdraws it.  *)
(* A datagram in flight stays in flight until it is delivered.             *)
(***************************************************************************)
\* The socket of the Browser receives a datagram from the network.
NetworkToBrowser(m) ==
    /\ network.linked
    /\ BagIn(m, network.inFlight)
    /\ Wire(m).to = "browser"
    /\ browserSocket = "open"
    /\ Log([name |-> "Browser.message", message |-> Wire(m).data,
            remote |-> AdvertiserPeer],
           <<>>,
           Browser_hear(_searchTargets, m))
    /\ network' = [network EXCEPT !.inFlight = @ (-) SetToBag({m})]
    /\ UNCHANGED <<browserVars, advertiserVars>>

\* The socket of the Advertiser receives a datagram from the network.
NetworkToAdvertiser(m) ==
    /\ network.linked
    /\ BagIn(m, network.inFlight)
    /\ Wire(m).to = "advertiser"
    /\ advertiserSocket = "open"
    /\ LET r == Advertiser_onMessage(Socket_receive(m, BrowserPeer), BrowserPeer)
       IN  /\ BagCardinality(pending (+) SetToBag(r.waiting)) <= MaxPending
           /\ pending' = pending (+) SetToBag(r.waiting)
           /\ Log([name |-> "Advertiser.message", message |-> Wire(m).data,
                   remote |-> BrowserPeer], <<>>, r.events)
    /\ network' = [network EXCEPT !.inFlight = @ (-) SetToBag({m})]
    /\ UNCHANGED <<browserVars, _services, isDestroyed, advertiserTimer,
                   advertiserSocket, goodbyes>>

InitNetwork ==
    /\ browserSocket = "open"
    /\ \E pairs \in SeqUpTo({NetService} \X NetInits, 1), tick \in TimerTicks :
          /\ _searchTargets = Browser_create(<<NetService>>, tick).targets
          /\ browserTimer = Browser_create(<<NetService>>, tick).timer
          /\ advertiserTimer = Advertiser_create(pairs, tick).timer
          /\ _services = Advertiser_create(pairs, tick).services
          /\ op = [name |-> "Advertiser.create", services |-> pairs, tick |-> tick]
          /\ sent = Advertiser_create(pairs, tick).sent
          /\ network \in Transmit([NoPeer EXCEPT !.linked = TRUE],
                                Advertiser_create(pairs, tick).sent)
    /\ before = [targets |-> <<>>, services |-> <<>>, pending |-> EmptyBag]
    /\ events = <<>>
    /\ isDestroyed = FALSE
    /\ advertiserSocket = "open"
    /\ pending = EmptyBag
    /\ goodbyes = NoGoodbyes

NextNetwork ==
    \/ \E init \in NetInits : Announce(NetService, init)
    \/ Withdraw(NetService)
    \/ AnnounceNow
    \/ SearchNow
    \/ \E m \in BagToSet(network.inFlight) : NetworkToBrowser(m)
    \/ \E m \in BagToSet(network.inFlight) : NetworkToAdvertiser(m)
    \/ \E waiting \in BagToSet(pending) : AdvertiserAuthenticated(waiting)

\* Datagrams are eventually delivered, each of them, and the authentication
\* hook eventually answers.
NetworkFairness ==
    /\ \A m \in WireMessages : WF_vars(NetworkToBrowser(m))
    /\ \A m \in WireMessages : WF_vars(NetworkToAdvertiser(m))
    /\ WF_vars(\E waiting \in BagToSet(pending) : AdvertiserAuthenticated(waiting))

SpecNetwork == InitNetwork /\ [][NextNetwork]_vars /\ NetworkFairness

\* Nothing is in flight that the fairness condition does not cover.
WireCovered == BagToSet(network.inFlight) \subseteq WireMessages

(***************************************************************************)
(* Everything the Advertiser hands to the transport: its notifications,    *)
(* its replies to approved searches, and its farewell.                     *)
(***************************************************************************)
\* The searches of an approved sender that pass the gate.
OutboundArrivals ==
    {a \in AdvertiserArrivals :
        /\ authenticationProvider(a.remote.address)
        /\ AdvertiserDispatch[a].emit = "search"
        /\ Advertiser_handle_payload_gate(AdvertiserDispatch[a].payload)}

\* An Advertiser created with one service at most; its caller announces
\* urn:test:1 with a header and a USN of its own and withdraws it, before
\* and after destroy.
InitOutbound == InitAdvertiser /\ Len(_services) <= 1

\* What the farewell hands over does not depend on what the transport
\* reports for it, so no byebye fails here.
NextOutbound ==
    \/ \E init \in HeaderInits \ {EmptyHeaders} : Announce(urn_test_1, init)
    \/ Withdraw(urn_test_1)
    \/ AdvertiserTick
    \/ AdvertiserDestroy
    \/ AdvertiserGoodbye(FALSE)
    \/ AdvertiserRelease
    \/ \E arrival \in OutboundArrivals : AdvertiserReceive(arrival)
    \/ \E waiting \in BagToSet(pending) : AdvertiserAuthenticated(waiting)

SpecOutbound == InitOutbound /\ [][NextOutbound]_vars

(***************************************************************************)
(* An Advertiser whose authentication hook fails for one sender and        *)
(* approves another, while its table changes.                              *)
(***************************************************************************)
NextHook ==
    \/ \E arrival \in FailingArrivals \cup OutboundArrivals : AdvertiserReceive(arrival)
    \/ \E waiting \in BagToSet(pending) : AdvertiserAuthenticated(waiting)
    \/ \E service \in AdvertiserServices, init \in HeaderInits : Announce(service, init)
    \/ \E service \in AdvertiserServices : Withdraw(service)

SpecHook == InitAdvertiser /\ [][NextHook]_vars

(***************************************************************************)
(* A Browser whose only subscription is ssdp:all and an Advertiser on one  *)
(* network.  The Advertiser's callers announce a service type of their     *)
(* own and a service they name ssdp:all.                                   *)
(***************************************************************************)
AllServices == {urn_test_1, ssdp_all}

InitSsdpAll ==
    /\ browserSocket = "open"
    /\ \E pairs \in SeqUpTo(AllServices \X {EmptyHeaders}, 1), tick \in TimerTicks :
          /\ _searchTargets = Browser_create(<<ssdp_all>>, tick).targets
          /\ browserTimer = Browser_create(<<ssdp_all>>, tick).timer
          /\ advertiserTimer = Advertiser_create(pairs, tick).timer
          /\ _services = Advertiser_create(pairs, tick).services
          /\ op = [name |-> "Advertiser.create", services |-> pairs, tick |-> tick]
          /\ sent = Advertiser_create(pairs, tick).sent
          /\ network \in Transmit([NoPeer EXCEPT !.linked = TRUE],
                                Advertiser_create(pairs, tick).sent)
    /\ before = [targets |-> <<>>, services |-> <<>>, pending |-> EmptyBag]
    /\ events = <<>>
    /\ isDestroyed = FALSE
    /\ advertiserSocket = "open"
    /\ pending = EmptyBag
    /\ goodbyes = NoGoodbyes

NextSsdpAll ==
    \/ \E service \in AllServices : Announce(service, EmptyHeaders)
    \/ SearchNow
    \/ \E m \in BagToSet(network.inFlight) : NetworkToBrowser(m)
    \/ \E m \in BagToSet(network.inFlight) : NetworkToAdvertiser(m)
    \/ \E waiting \in BagToSet(pending) : AdvertiserAuthenticated(waiting)

SpecSsdpAll == InitSsdpAll /\ [][NextSsdpAll]_vars

(***************************************************************************)
(* Both roles over a faulty transport: every send resolves, later, with a  *)
(* list of errors, and the callback the sender chained to it emits them.   *)
(***************************************************************************)
Faulty == [NoPeer EXCEPT !.faulty = TRUE]

\* The instance that made a send: only the Browser sends M-SEARCH.
SendOwner(message) == IF message.method = "m-search" THEN "Browser" ELSE "Advertiser"

\* A callback that emits the first error only.
Send_then_first_only(errors) ==
    [j \in 1..(IF errors = <<>> THEN 0 ELSE 1) |-> SendError(errors[j])]

\* .then(errors => errors.forEach(error => this.emit('error', error)))
Send_then(errors) == [j \in 1..Len(errors) |-> SendError(errors[j])]

RemoveAt(seq, i) == SubSeq(seq, 1, i - 1) \o SubSeq(seq, i + 1, Len(seq))

\* One send has resolved and its callback runs.
Settle(i) ==
    /\ network.faulty
    /\ i \in 1..Len(network.unsettled)
    /\ LET promise == network.unsettled[i]
       IN  Log([name |-> "send.then", owner |-> SendOwner(promise.message.message),
                message |-> promise.message, errors |-> promise.errors],
               <<>>, Send_then(promise.errors))
    /\ network' = [network EXCEPT !.unsettled = RemoveAt(@, i)]
    /\ UNCHANGED <<browserVars, advertiserVars>>

SendTargets == <<urn_test_1, urn_test_2>>

\* The searches of an approved sender for urn:test:1.
SendArrivals ==
    {a \in OutboundArrivals :
        Payload_getHeader(AdvertiserDispatch[a].payload, ST) = urn_test_1}

InitSend ==
    /\ browserSocket = "open"
    /\ \E pairs \in SeqUpTo({urn_test_1} \X {EmptyHeaders}, 1), tick \in TimerTicks :
          /\ _searchTargets = Browser_create(SendTargets, tick).targets
          /\ browserTimer = Browser_create(SendTargets, tick).timer
          /\ advertiserTimer = Advertiser_create(pairs, tick).timer
          /\ _services = Advertiser_create(pairs, tick).services
          /\ op = [name |-> "Advertiser.create", services |-> pairs, tick |-> tick]
          /\ sent = Advertiser_create(pairs, tick).sent
          /\ network \in Transmit(Faulty, Advertiser_create(pairs, tick).sent)
    /\ before = [targets |-> <<>>, services |-> <<>>, pending |-> EmptyBag]
    /\ events = <<>>
    /\ isDestroyed = FALSE
    /\ advertiserSocket = "open"
    /\ pending = EmptyBag
    /\ goodbyes = NoGoodbyes

NextSend ==
    \/ SearchNow
    \/ AnnounceNow
    \/ Announce(urn_test_1, EmptyHeaders)
    \/ Withdraw(urn_test_1)
    \/ \E arrival \in SendArrivals : AdvertiserReceive(arrival)
    \/ \E waiting \in BagToSet(pending) : AdvertiserAuthenticated(waiting)
    \/ \E i \in 1..Len(network.unsettled) : Settle(i)

SpecSend == InitSend /\ [][NextSend]_vars

(***************************************************************************)
(* The SSDP socket by itself: datagrams arrive one after the other and the *)
(* 'message' handler emits what it makes of each.                          *)
(***************************************************************************)
DispatchInbound == BrowserInbound \cup AdvertiserInbound

\* What the handler emits, as events of the SSDP instance.
SSDP_emitted(m) ==
    IF m.emit = "none" THEN <<>>
    ELSE IF m.emit = "error" THEN <<ErrorEvent(m.type, m.raw)>>
    ELSE <<[event |-> m.emit, payload |-> m.payload]>>

\* What the handler makes of each datagram, worked out once.
SocketDispatch ==
    [message \in DispatchInbound |->
        [remote \in Remotes |-> SSDP_onMessage(message, remote)]]

\* One datagram is received; the step remembers which events the one before
\* led to.
SocketReceive(message, remote) ==
    /\ op' = [name |-> "SSDP.message", message |-> message, remote |-> remote,
              earlier |-> [j \in 1..Len(events) |-> events[j].event]]
    /\ events' = SSDP_emitted(SocketDispatch[message][remote])
    /\ UNCHANGED <<browserVars, advertiserVars, sent, before, network>>

InitDispatch ==
    /\ op = [name |-> "SSDP.create"]
    /\ sent = <<>>
    /\ events = <<>>
    /\ before = [targets |-> <<>>, services |-> <<>>, pending |-> EmptyBag]
    /\ BrowserIdle
    /\ AdvertiserIdle
    /\ OneTimer
    /\ network = NoPeer

NextDispatch == \E message \in DispatchInbound, remote \in Remotes : SocketReceive(message, remote)

SpecDispatch == InitDispatch /\ [][NextDispatch]_vars

(***************************************************************************)
(* The two owned sets, and the operations that read and write them.        *)
(***************************************************************************)
InitOwned ==
    /\ \E targets \in SeqUpTo(BrowserTargets, MaxCreate),
          pairs \in SeqUpTo(AdvertiserServices \X {EmptyHeaders}, MaxCreate),
          tick \in TimerTicks :
          /\ browserTimer = Browser_create(targets, tick).timer
          /\ advertiserTimer = Advertiser_create(pairs, tick).timer
          /\ _searchTargets = Browser_create(targets, tick).targets
          /\ _services = Advertiser_create(pairs, tick).services
          /\ op = [name |-> "create", targets |-> targets, services |-> pairs, tick |-> tick]
          /\ sent = Browser_create(targets, tick).sent \o Advertiser_create(pairs, tick).sent
    /\ before = [targets |-> <<>>, services |-> <<>>, pending |-> EmptyBag]
    /\ events = <<>>
    /\ browserSocket = "open"
    /\ isDestroyed = FALSE
    /\ advertiserSocket = "open"
    /\ pending = EmptyBag
    /\ goodbyes = NoGoodbyes
    /\ network = NoPeer

NextOwned ==
    \/ \E service \in BrowserTargets : Subscribe(service)
    \/ \E service \in BrowserTargets : Unsubscribe(service)
    \/ SearchNow
    \/ \E service \in AdvertiserServices : Announce(service, EmptyHeaders)
    \/ \E service \in AdvertiserServices : Withdraw(service)
    \/ AnnounceNow

SpecOwned == InitOwned /\ [][NextOwned]_vars

(***************************************************************************)
(* The codec by itself: a message of each kind is built by setHeader       *)
(* calls, encoded by toString, and the text decoded by its kind's decode.  *)
(***************************************************************************)
MaxHeaders == 2

CodecKeys == { <<"a">>, <<"A">>, <<"st">> }

\* Empty, plain, and with a colon, bare or with spaces around it.
CodecValues == { <<>>, <<"x">>, <<"a", COLON, "b">>, <<"a", SP, COLON, SP, "b">> }

CodecKinds == { Search(<<"239.255.255.250">>, 1900), Notification, Reply }

Codec_decode(kind, text) ==
    IF kind.method = "m-search" THEN Search_decode(text, kind.host, kind.port)
    ELSE IF kind.method = "notify" THEN Notification_decode(text)
    ELSE Reply_decode(text)

\* The states of a message whose headers have been set, deleted or cleared.
CodecBuilt == {"Payload.setHeader", "Payload.deleteHeader", "Payload.clearHeaders"}

CodecDelete(key) ==
    /\ op.name = "Payload.setHeader"
    /\ op' = [name |-> "Payload.deleteHeader", kind |-> op.kind, calls |-> op.calls,
              key |-> key, payload |-> Payload_deleteHeader(op.payload, key)]
    /\ UNCHANGED <<browserVars, advertiserVars, sent, events, before, network>>

CodecClear ==
    /\ op.name \in {"Payload.setHeader", "Payload.deleteHeader"}
    /\ op' = [name |-> "Payload.clearHeaders", kind |-> op.kind, calls |-> op.calls,
              payload |-> Payload_clearHeaders(op.payload)]
    /\ UNCHANGED <<browserVars, advertiserVars, sent, events, before, network>>

CodecEncode ==
    /\ op.name \in CodecBuilt
    /\ op' = [name |-> "Payload.toString", kind |-> op.kind, calls |-> op.calls,
              payload |-> op.payload, text |-> Payload_toString(op.payload)]
    /\ UNCHANGED <<browserVars, advertiserVars, sent, events, before, network>>

CodecDecode ==
    /\ op.name = "Payload.toString"
    /\ op' = [name |-> "Payload.decode", kind |-> op.kind, calls |-> op.calls,
              payload |-> op.payload, text |-> op.text,
              threw |-> Payload_decode(op.text).threw,
              decoded |-> Codec_decode(op.kind, op.text)]
    /\ UNCHANGED <<browserVars, advertiserVars, sent, events, before, network>>

InitCodec ==
    /\ \E kind \in CodecKinds, calls \in SeqUpTo(CodecKeys \X CodecValues, MaxHeaders) :
          op = [name |-> "Payload.setHeader", kind |-> kind, calls |-> calls,
                payload |-> WithHeaders(kind, calls)]
    /\ sent = <<>>
    /\ events = <<>>
    /\ before = [targets |-> <<>>, services |-> <<>>, pending |-> EmptyBag]
    /\ BrowserIdle
    /\ AdvertiserIdle
    /\ OneTimer
    /\ network = NoPeer

NextCodec ==
    \/ \E key \in CodecKeys : CodecDelete(key)
    \/ CodecClear
    \/ CodecEncode
    \/ CodecDecode

SpecCodec == InitCodec /\ [][NextCodec]_vars

(***************************************************************************)
(* Both roles side by side, every operation.                               *)
(***************************************************************************)
Init ==
    /\ \E services \in SeqUpTo(BrowserTargets, MaxCreate), tick \in TimerTicks :
          /\ _searchTargets = Browser_create(services, tick).targets
          /\ browserTimer = Browser_create(services, tick).timer
    /\ browserSocket = "open"
    /\ AdvertiserCreated
    /\ OneTimer
    /\ network = NoPeer

Next == NextBrowser \/ NextAdvertiser \/ NextInbound \/ NextDestroy

Spec == Init /\ [][Next]_vars

(***************************************************************************)
(* Claims about the Browser, checked under SpecBrowser.                    *)
(***************************************************************************)
\* What an inbound datagram is, read off its text: its kind by its first
\* word, its headers by the codec.
InboundKind(message) ==
    IF startsWith(message, "M-SEARCH") THEN "search"
    ELSE IF startsWith(message, "NOTIFY") THEN "notification"
    ELSE "reply"

InboundDecodes(message) == ~Payload_decode(message).threw

InboundHeader(message, name) == Payload_getHeader(Notification_decode(message), name)

\* The target of a Notification is its NT, that of a Reply its ST.
InboundTarget(message) ==
    IF InboundKind(message) = "notification" THEN InboundHeader(message, NT)
    ELSE IF InboundKind(message) = "reply" THEN InboundHeader(message, ST)
    ELSE <<>>

\* The discover and withdraw events of the last step.
Classified == SelectSeq(events, LAMBDA e : e.event \in {"discover", "withdraw"})

\* C1: the Browser emits 'discover' or 'withdraw' for an inbound Reply or
\* Notification only if the message's target (ST, resp. NT) is in the
\* Subscription Set when the message is processed; every such event names
\* that target.
C1_SubscriptionGating ==
    op.name = "Browser.message" =>
        /\ Classified # <<>> => Set_has(_searchTargets, InboundTarget(op.message))
        /\ \A i \in 1..Len(Classified) :
              Classified[i].service = InboundTarget(op.message)

\* An ssdp:alive Notification for urn:test:1 arrives at a Browser that has
\* subscriptions, but none for urn:test:1, and nothing is emitted.
C1_Witness ==
    /\ op.name = "Browser.message"
    /\ InboundKind(op.message) = "notification"
    /\ InboundTarget(op.message) = urn_test_1
    /\ InboundHeader(op.message, NTS) = ssdp_alive
    /\ InboundDecodes(op.message)
    /\ _searchTargets # <<>>
    /\ ~Set_has(_searchTargets, urn_test_1)
    /\ events = <<>>

\* C2: for a subscribed target a Reply yields exactly one 'discover', a
\* Notification with NTS ssdp:alive or ssdp:update exactly one 'discover',
\* a Notification with NTS ssdp:byebye exactly one 'withdraw' whose service
\* is the NT value, and a Notification with any other or no NTS no event.
C2_NtsClassification ==
    ( /\ op.name = "Browser.message"
      /\ InboundDecodes(op.message)
      /\ InboundTarget(op.message) # <<>>
      /\ Set_has(_searchTargets, InboundTarget(op.message)) ) =>
        LET nts == InboundHeader(op.message, NTS)
            expected ==
                IF InboundKind(op.message) = "reply" THEN "discover"
                ELSE IF nts \in {ssdp_alive, ssdp_update} THEN "discover"
                ELSE IF nts = ssdp_byebye THEN "withdraw"
                ELSE "none"
        IN  IF expected = "none" THEN events = <<>>
            ELSE /\ Len(events) = 1
                 /\ events[1].event = expected
                 /\ events[1].service = InboundTarget(op.message)

\* An ssdp:byebye Notification for the subscribed urn:test:1 is turned into
\* one 'withdraw' for urn:test:1.
C2_Witness ==
    /\ op.name = "Browser.message"
    /\ InboundKind(op.message) = "notification"
    /\ InboundTarget(op.message) = urn_test_1
    /\ InboundHeader(op.message, NTS) = ssdp_byebye
    /\ Set_has(_searchTargets, urn_test_1)
    /\ Len(events) = 1
    /\ events[1].event = "withdraw"
    /\ events[1].service = urn_test_1

\* The entry subscribe makes for a service: '*' stands for ssdp:all.
EntryOf(service) == IF service = Star THEN ssdp_all ELSE service

\* C8: subscribe(T), '*' read as ssdp:all, hands exactly one Search with
\* ST = T to the transport when T was not in the Subscription Set, none
\* when it was, and T is in the set afterwards.
C8_SubscribeSearchesOnce ==
    op.name = "Browser.subscribe" =>
        LET T == EntryOf(op.service)
        IN  /\ Set_has(_searchTargets, T)
            /\ IF Set_has(before.targets, T)
               THEN sent = <<>>
               ELSE /\ Len(sent) = 1
                    /\ sent[1].message.method = "m-search"
                    /\ Payload_getHeader(sent[1].message, ST) = T
                    /\ Payload_getHeader(sent[1].message, MAN) = ssdp_discover

\* subscribe('*') on a set that holds other targets but not ssdp:all sends
\* one Search for ssdp:all.
C8_Witness ==
    /\ op.name = "Browser.subscribe"
    /\ op.service = Star
    /\ before.targets # <<>>
    /\ ~Set_has(before.targets, ssdp_all)
    /\ Len(sent) = 1
    /\ Payload_getHeader(sent[1].message, ST) = ssdp_all
    /\ Set_has(_searchTargets, ssdp_all)

\* C9: for every service string s, '*' included, subscribe(s) on a set
\* without its entry followed by unsubscribe(s) returns true and restores
\* the set; unsubscribe of an absent target returns false and changes
\* nothing.  (The step from the state after subscribe to the state after
\* unsubscribe.)
C9_SubscribeThenUnsubscribe ==
    [][ /\ ( /\ op.name = "Browser.subscribe"
             /\ ~Set_has(before.targets, EntryOf(op.service))
             /\ op'.name = "Browser.unsubscribe"
             /\ op'.service = op.service )
           => (op'.result = TRUE /\ _searchTargets' = before.targets)
        /\ ( /\ op'.name = "Browser.unsubscribe"
             /\ ~Set_has(_searchTargets, op'.service) )
           => (op'.result = FALSE /\ _searchTargets' = _searchTargets) ]_vars

\* C10: the Subscription Set never holds the literal '*'.
C10_NoStarInSubscriptions == ~Set_has(_searchTargets, Star)

(***************************************************************************)
(* Claims about the Advertiser's answers to searches, checked under        *)
(* SpecInbound.                                                            *)
(***************************************************************************)
\* A header read off the text of a datagram without the Headers class: the
\* value of the last line that bears the name, empty when no line does.
RECURSIVE TextHeaderOf(_, _)
TextHeaderOf(lines, name) ==
    IF lines = <<>> THEN <<>>
    ELSE LET parts == Payload_parts(lines[Len(lines)])
         IN  IF Len(parts) > 1 /\ toUpperCase(parts[1]) = name
             THEN trim(join(Tail(parts), <<COLON>>))
             ELSE TextHeaderOf(SubSeq(lines, 1, Len(lines) - 1), name)

TextHeader(message, name) == TextHeaderOf(Payload_lines(message), name)

\* An M-SEARCH that the validity gate must stop.
FailsSearchGate(message) ==
    /\ InboundKind(message) = "search"
    /\ \/ TextHeader(message, MAN) # ssdp_discover
       \/ TextHeader(message, ST) = <<>>

\* The Advertiser did nothing about the datagram of the last step: no
\* event, nothing sent, and no handle_payload left waiting for the hook.
NothingDone == events = <<>> /\ sent = <<>> /\ pending = before.pending

\* Whatever handle_payload goes on with after the hook passed the gate.
ResumedPassedGate ==
    op.name = "Advertiser.handle_payload" =>
        /\ Payload_getHeader(op.payload, MAN) = ssdp_discover
        /\ Payload_getHeader(op.payload, ST) # <<>>

\* C3: an inbound M-SEARCH whose MAN is not exactly "ssdp:discover", or
\* that has no ST or an empty one, never makes the Advertiser emit
\* 'search', send a Reply or emit an error, whatever the Service Table
\* holds.
C3_SearchValidityGate ==
    /\ (op.name = "Advertiser.message" /\ FailsSearchGate(op.message)) => NothingDone
    /\ ResumedPassedGate

\* The search handle_payload went on with in the last step, once the hook
\* had approved its sender.
Answered == op.name = "Advertiser.handle_payload" /\ op.approved

SearchTarget == Payload_getHeader(op.payload, ST)

\* The targets handle_payload answers by itself, before it looks at the
\* table.
ReservedTargets == {ssdp_all, upnp_rootdevice, uuid_U}

\* The one Reply for service S with the headers of its entry: unicast to
\* the sender of the search, ST and USN set over whatever the entry held.
IsServiceReply(S, entry) ==
    /\ Len(sent) = 1
    /\ sent[1].message.method = "reply"
    /\ sent[1].message.isReply
    /\ sent[1].dstAddress = op.remote.address
    /\ sent[1].dstPort = op.remote.port
    /\ sent[1].dstAddress = op.payload.host
    /\ sent[1].dstPort = op.payload.port
    /\ sent[1].message.headers =
          Headers_set(Headers_set(entry, ST, S), USN, UsnOf(S))

\* C4 as stated: a valid, authorised Search with ST = S, S in the Service
\* Table, is answered by exactly one Reply, unicast to the address and
\* port of the requester, with ST = S, USN = uuid:U::S and the entry's
\* extra headers.
C4_ServiceReply ==
    (Answered /\ Map_has(_services, SearchTarget)) =>
        IsServiceReply(SearchTarget, Map_get(_services, SearchTarget))

\* C4 for the service types handle_payload looks up in the table, that is,
\* every S but ssdp:all, upnp:rootdevice and uuid:U.
C4_TableServiceReply ==
    (Answered /\ Map_has(_services, SearchTarget)
              /\ SearchTarget \notin ReservedTargets) =>
        IsServiceReply(SearchTarget, Map_get(_services, SearchTarget))

\* A search for urn:test:1 is answered from an entry that has headers of
\* its own.
C4_Witness ==
    /\ Answered
    /\ SearchTarget = urn_test_1
    /\ Map_has(_services, urn_test_1)
    /\ Headers_has(Map_get(_services, urn_test_1), <<"A">>)
    /\ Len(sent) = 1
    /\ Payload_getHeader(sent[1].message, <<"A">>) = <<"1">>
    /\ Payload_getHeader(sent[1].message, USN) = UsnOf(urn_test_1)
    /\ sent[1].dstPort = 50001

\* C5: for every table, the empty one included, a valid Search from an
\* approved sender with ST = upnp:rootdevice or ST = uuid:U results in
\* exactly one 'search' event and one Reply with that ST and no attribute
\* headers of any entry.
C5_RootDeviceAndIdentityReply ==
    (Answered /\ SearchTarget \in {upnp_rootdevice, uuid_U}) =>
        /\ events = <<AdvertiserEvent(SearchTarget, op.payload, op.remote)>>
        /\ Len(sent) = 1
        /\ sent[1].message.isReply
        /\ sent[1].dstAddress = op.remote.address
        /\ sent[1].dstPort = op.remote.port
        /\ DOMAIN sent[1].message.headers = {ST, USN}
        /\ Payload_getHeader(sent[1].message, ST) = SearchTarget

\* A search for upnp:rootdevice is answered without attributes by an
\* Advertiser whose table holds upnp:rootdevice with attributes.
C5_Witness ==
    /\ Answered
    /\ SearchTarget = upnp_rootdevice
    /\ Map_has(_services, upnp_rootdevice)
    /\ Headers_has(Map_get(_services, upnp_rootdevice), <<"A">>)
    /\ Len(events) = 1
    /\ Len(sent) = 1
    /\ DOMAIN sent[1].message.headers = {ST, USN}

(***************************************************************************)
(* Claims about the Advertiser's public operations, checked under          *)
(* SpecAdvertiser.                                                         *)
(***************************************************************************)
\* The ssdp:byebye notification for service S.
IsByebyeFor(m, S) ==
    /\ m.message.method = "notify"
    /\ Payload_getHeader(m.message, NT) = S
    /\ Payload_getHeader(m.message, NTS) = ssdp_byebye
    /\ m.dstAddress = <<>>

\* What one withdraw call does, by whether S was in the table.
WithdrawOnce ==
    op.name = "Advertiser.withdraw" =>
        IF Map_has(before.services, op.service)
        THEN /\ op.result = TRUE
             /\ _services = Map_delete(before.services, op.service)
             /\ ~Map_has(_services, op.service)
             /\ Len(sent) = 1
             /\ IsByebyeFor(sent[1], op.service)
        ELSE /\ op.result = FALSE
             /\ sent = <<>>
             /\ _services = before.services

\* The step from one withdraw(S) to the next withdraw(S).
WithdrawTwice ==
    ( /\ op.name = "Advertiser.withdraw"
      /\ op'.name = "Advertiser.withdraw"
      /\ op'.service = op.service )
    => (op'.result = FALSE /\ sent' = <<>> /\ _services' = _services)

\* C6: withdraw(S) returns true, removes S and sends exactly one
\* ssdp:byebye with NT = S if and only if S was in the table; otherwise it
\* returns false, sends nothing and leaves the table as it was.  Hence a
\* second withdraw(S) right after the first returns false and sends
\* nothing.
C6_IdempotentWithdraw == []WithdrawOnce /\ [][WithdrawTwice]_vars

\* withdraw(urn:test:1) on a table of two entries: the other entry stays,
\* one byebye for urn:test:1 goes out.
C6_Witness ==
    /\ op.name = "Advertiser.withdraw"
    /\ op.service = urn_test_1
    /\ Len(before.services) = 2
    /\ Map_has(before.services, urn_test_1)
    /\ op.result = TRUE
    /\ Map_keys(_services) = <<upnp_rootdevice>>
    /\ Len(sent) = 1
    /\ IsByebyeFor(sent[1], urn_test_1)

\* The ssdp:alive notification for service S.
IsAliveFor(m, S) ==
    /\ m.message.method = "notify"
    /\ Payload_getHeader(m.message, NT) = S
    /\ Payload_getHeader(m.message, NTS) = ssdp_alive

\* C7: announce(S, H) always leaves the table mapping S to H; it sends
\* exactly one ssdp:alive for S when S was not in the table, and nothing
\* when it was.
C7_AnnounceUpserts ==
    op.name = "Advertiser.announce" =>
        /\ Map_has(_services, op.service)
        /\ Map_get(_services, op.service) = Headers_new(op.headers)
        /\ IF Map_has(before.services, op.service)
           THEN sent = <<>>
           ELSE Len(sent) = 1 /\ IsAliveFor(sent[1], op.service)

\* The public operations that the destroyed flag is said to switch off.
TableOperations ==
    {"Advertiser.announce", "Advertiser.withdraw", "Advertiser.announceNow"}

\* C11: once destroy() has been called, announce, withdraw and announceNow
\* neither change the Service Table nor hand any message to the transport.
\* (isDestroyed is set by destroy alone, so when it holds after one of these
\* operations, destroy was called before it.)
C11_DestroyedIsTerminal ==
    (isDestroyed /\ op.name \in TableOperations) =>
        (_services = before.services /\ sent = <<>>)

(***************************************************************************)
(* Claims about the Advertiser's destruction, checked under SpecDestroy.   *)
(***************************************************************************)
IsPrefix(p, q) == Len(p) <= Len(q) /\ p = SubSeq(q, 1, Len(p))

\* The service types destroy has sent a byebye for from the table, the two
\* identities that come first left aside.
SaidOfTable == SubSeq(goodbyes.said, 3, Len(goodbyes.said))

\* How many byebyes destroy has sent for an entry of the table.
SaidFor(service) ==
    Cardinality({i \in 1..Len(SaidOfTable) : SaidOfTable[i] = service})

\* What destroy has sent so far is the beginning of one farewell sequence:
\* uuid:<uuid>, upnp:rootdevice, then no service twice; and the timer and
\* the socket are gone exactly when the callback of destroy has run.
FarewellRunsOnce ==
    /\ IsPrefix(SubSeq(goodbyes.said, 1, IF Len(goodbyes.said) < 2
                                         THEN Len(goodbyes.said) ELSE 2),
                <<uuid_U, upnp_rootdevice>>)
    /\ \A service \in AdvertiserServices : SaidFor(service) <= 1
    /\ isDestroyed <=> goodbyes.stage # "none"
    /\ advertiserTimer = "destroyed" <=> goodbyes.stage = "done"
    /\ advertiserSocket = "destroyed" <=> goodbyes.stage = "done"

\* destroy() on a destroyed Advertiser sends nothing and leaves
\* send_goodbyes, the timer and the socket as they are; once the callback
\* of destroy has run nothing of it moves again.
DestroyNotReentered ==
    /\ (isDestroyed /\ op'.name = "Advertiser.destroy") =>
          /\ sent' = <<>>
          /\ UNCHANGED <<goodbyes, advertiserTimer, advertiserSocket, isDestroyed>>
    /\ goodbyes.stage = "done" =>
          UNCHANGED <<goodbyes, advertiserTimer, advertiserSocket, isDestroyed>>

\* C12: however many times destroy() is called, the farewell sequence runs
\* once: each identity and each service gets at most one byebye from
\* destroy, and the timer is stopped and the transport released once.
C12_DestroyNotReentered == []FarewellRunsOnce /\ [][DestroyNotReentered]_vars

\* The steps of destroy and send_goodbyes that hand something to the
\* transport hand it one ssdp:byebye, for the service type noted last.
FarewellIsByebyes ==
    (op.name \in {"Advertiser.destroy", "Advertiser.send_goodbyes"} /\ sent # <<>>) =>
        /\ Len(sent) = 1
        /\ goodbyes.said # <<>>
        /\ IsByebyeFor(sent[1], goodbyes.said[Len(goodbyes.said)])

\* The farewell is through: one byebye for uuid:<uuid>, one for
\* upnp:rootdevice, and one for every entry of the table.
FarewellComplete ==
    /\ IsPrefix(<<uuid_U, upnp_rootdevice>>, goodbyes.said)
    /\ \A i \in 1..Len(_services) : SaidFor(_services[i][1]) = 1

\* C13: destroy() sends one ssdp:byebye for uuid:<uuid>, one for
\* upnp:rootdevice and one for every entry that remains in the table, and
\* the timer is stopped and the transport released only after all of them
\* have been handed to the transport, whether or not earlier byebyes
\* reported errors; the errors are emitted when the sequence is through,
\* and the release follows in the callback of destroy.
C13_FarewellBeforeRelease ==
    /\ FarewellIsByebyes
    /\ (advertiserTimer = "destroyed" \/ advertiserSocket = "destroyed") =>
          goodbyes.stage = "done"
    /\ (op.name = "Advertiser.send_goodbyes" /\ goodbyes.stage = "emitted") =>
          /\ events = goodbyes.errors
          /\ FarewellComplete
          /\ advertiserTimer # "destroyed"
          /\ advertiserSocket # "destroyed"
    /\ op.name = "Advertiser.destroy.finally" =>
          /\ sent = <<>>
          /\ advertiserTimer = "destroyed"
          /\ advertiserSocket = "destroyed"

(***************************************************************************)
(* More claims about the Advertiser's answers to searches, checked under   *)
(* SpecInbound.                                                            *)
(***************************************************************************)
\* C14: a valid, authorised Search whose ST is none of ssdp:all,
\* upnp:rootdevice, uuid:U or a key of the table makes the Advertiser emit
\* exactly one error event that names the target, no 'search' event and no
\* Reply, and leaves the table as it was.
C14_UnknownTarget ==
    (Answered /\ SearchTarget \notin ReservedTargets
              /\ ~Map_has(before.services, SearchTarget)) =>
        /\ events = <<UnknownTargetEvent(SearchTarget)>>
        /\ sent = <<>>
        /\ _services = before.services

\* A search for urn:test:2 from an approved sender is handled by an
\* Advertiser whose table holds other services only.
C14_Witness ==
    /\ Answered
    /\ SearchTarget = urn_test_2
    /\ _services # <<>>
    /\ ~Map_has(_services, urn_test_2)
    /\ Len(events) = 1
    /\ events[1].event = "error"
    /\ events[1].raw = urn_test_2
    /\ sent = <<>>

\* The search handle_payload went on with in the last step, the hook
\* having turned its sender down.
Rejected == op.name = "Advertiser.handle_payload" /\ ~op.approved

\* C15: when the authentication hook returns false for the sender's
\* address, the Advertiser emits no 'search' event, sends no Reply and
\* emits no error event for that Search, whatever its ST.
C15_RejectionIsSilent ==
    Rejected => (events = <<>> /\ sent = <<>> /\ _services = before.services)

\* A search for upnp:rootdevice from a sender the hook turns down, at an
\* Advertiser with a table: nothing happens.
C15_Witness ==
    /\ Rejected
    /\ SearchTarget = upnp_rootdevice
    /\ ~authenticationProvider(op.remote.address)
    /\ _services # <<>>
    /\ events = <<>>
    /\ sent = <<>>

\* The Reply for entry i of the table: unicast to the sender of the search,
\* the entry's headers with ST and USN set.
IsEntryReply(m, i) ==
    /\ m.message.isReply
    /\ m.dstAddress = op.remote.address
    /\ m.dstPort = op.remote.port
    /\ m.message.headers =
          Headers_set(Headers_set(_services[i][2], ST, _services[i][1]),
                      USN, UsnOf(_services[i][1]))

\* C16: a valid, authorised Search with ST = ssdp:all yields exactly one
\* Reply per entry of the table as it is when the reply is built, each
\* with ST = the entry's service type, USN = uuid:U::<service type> and the
\* entry's extra headers.
C16_AllPerEntryReplies ==
    (Answered /\ SearchTarget = ssdp_all) =>
        /\ Len(sent) = Len(_services)
        /\ \A i \in 1..Len(_services) : IsEntryReply(sent[i], i)

\* A search for ssdp:all is answered from a table of two entries.
C16_Witness ==
    /\ Answered
    /\ SearchTarget = ssdp_all
    /\ Len(_services) = 2
    /\ Len(sent) = 2
    /\ Payload_getHeader(sent[1].message, ST) = _services[1][1]
    /\ Payload_getHeader(sent[2].message, ST) = _services[2][1]
    /\ Payload_getHeader(sent[2].message, USN) = UsnOf(_services[2][1])

\* A Reply of the last step that bears the USN of an identity.
RepliesWithUsn(usn) ==
    \E i \in 1..Len(sent) :
        sent[i].message.isReply /\ Payload_getHeader(sent[i].message, USN) = usn

\* C17: the response to a valid, authorised Search with ST = ssdp:all
\* includes the device identity, upnp:rootdevice and uuid:U, besides the
\* replies for the services, so at least one Reply is sent even when the
\* table is empty.
C17_AllIncludesIdentity ==
    (Answered /\ SearchTarget = ssdp_all) =>
        /\ sent # <<>>
        /\ RepliesWithUsn(UsnOf(upnp_rootdevice))
        /\ RepliesWithUsn(uuid_U)

(***************************************************************************)
(* Claims about the periodic work of both roles, checked under             *)
(* SpecAdvertiser and SpecBrowser.                                         *)
(***************************************************************************)
\* A multicast ssdp:alive notification with exactly these headers besides
\* HOST, NT and NTS.
IsAliveWith(m, nt, headers) ==
    /\ m.message.method = "notify"
    /\ m.dstAddress = <<>>
    /\ m.message.headers =
          Headers_set(Headers_set(Headers_set(headers, HOST, MulticastHost),
                                  NT, nt), NTS, ssdp_alive)

Ticks == {"Advertiser.tick", "Advertiser.announceNow"}

\* C18: each tick of the Advertiser, by the timer or by announceNow, sends
\* the two identity notifications, NT upnp:rootdevice and NT uuid:U, both
\* ssdp:alive, and then one ssdp:alive per entry of the table at that
\* moment, in table order, with NT = the service type, the entry's extra
\* headers and USN = uuid:U::<service>; nothing else, so nothing for a
\* service that was withdrawn.
C18_TickNotifications ==
    op.name \in Ticks =>
        /\ Len(sent) = 2 + Len(before.services)
        /\ IsAliveWith(sent[1], upnp_rootdevice,
                       Headers_new([k \in {USN} |-> UsnOf(upnp_rootdevice)]))
        /\ IsAliveWith(sent[2], uuid_U, Headers_new([k \in {USN} |-> uuid_U]))
        /\ \A i \in 1..Len(before.services) :
              IsAliveWith(sent[2 + i], before.services[i][1],
                          Headers_set(before.services[i][2], USN,
                                      UsnOf(before.services[i][1])))
        /\ Map_keys(_services) = Map_keys(before.services)

\* A timer tick on a table of two entries, one of them with a header of
\* its own: four notifications.
C18_Witness ==
    /\ op.name = "Advertiser.tick"
    /\ Len(before.services) = 2
    /\ Len(sent) = 4
    /\ \E i \in 1..2 :
          /\ Headers_has(before.services[i][2], <<"A">>)
          /\ Payload_getHeader(sent[2 + i].message, <<"A">>) = <<"1">>
          /\ Payload_getHeader(sent[2 + i].message, NT) = before.services[i][1]

\* The number of messages of the last step that satisfy P.
CountSent(P(_)) == Cardinality({j \in 1..Len(sent) : P(sent[j])})

IsSearchFor(m, target) ==
    /\ m.message.method = "m-search"
    /\ Payload_getHeader(m.message, ST) = target
    /\ Payload_getHeader(m.message, MAN) = ssdp_discover
    /\ m.dstAddress = <<>>

\* The last step was the tick the constructor asked the timer for, emitted
\* after create had returned.
ImmediateTick(name) == op.name = name /\ op.immediate

\* create has just returned and the tick the constructors asked for was
\* emitted inside them: the log holds what that tick handed over.
TickedInside == op.name = "Advertiser.create" /\ op.tick = "inside"

\* C19: the tick that fires immediately at construction covers the
\* configured initial set: it sends one ssdp:alive for every initial
\* service of the Advertiser and one Search for every initial target of the
\* Browser, whether the timer emits it inside the constructor or after
\* create has returned.
C19_ConstructionTickCoversInitialSet ==
    /\ (TickedInside \/ ImmediateTick("Advertiser.tick")) =>
          \A i \in 1..Len(CreatedServices) :
              CountSent(LAMBDA m : IsAliveFor(m, CreatedServices[i][1])) = 1
    /\ (TickedInside \/ ImmediateTick("Browser.tick")) =>
          \A i \in 1..Len(CreatedTargets) :
              CountSent(LAMBDA m : IsSearchFor(m, CreatedTargets[i])) = 1

Sweeps == {"Browser.tick", "Browser.searchNow"}

\* C20: every sweep of the Browser, by the timer or by searchNow, issues
\* exactly one Search per target that is in the Subscription Set at that
\* moment, in the set's order, and none for any other target; with an
\* empty set it sends nothing.
C20_SweepSearchesSubscriptions ==
    op.name \in Sweeps =>
        /\ Len(sent) = Len(_searchTargets)
        /\ \A i \in 1..Len(_searchTargets) : IsSearchFor(sent[i], _searchTargets[i])
        /\ _searchTargets = before.targets

\* A timer tick with two subscriptions sends two Searches.
C20_Witness ==
    /\ op.name = "Browser.tick"
    /\ Len(_searchTargets) = 2
    /\ Len(sent) = 2
    /\ IsSearchFor(sent[1], _searchTargets[1])
    /\ IsSearchFor(sent[2], _searchTargets[2])


(***************************************************************************)
(* End to end, under SpecNetwork.                                          *)
(***************************************************************************)
\* The Browser has just emitted `event` for NetService.
BrowserEmitted(event) ==
    /\ op.name = "Browser.message"
    /\ \E i \in 1..Len(events) :
          events[i].event = event /\ events[i].service = NetService

AnnouncedNew ==
    /\ op.name = "Advertiser.announce"
    /\ op.service = NetService
    /\ ~Map_has(before.services, NetService)

AnnouncedNow == op.name = "Advertiser.announceNow" /\ Map_has(_services, NetService)

SearchedNow == op.name = "Browser.searchNow" /\ Map_has(_services, NetService)

\* C21: with the Browser subscribed to S and datagrams eventually
\* delivered, announce(S) of a new S, announceNow() with S in the Service
\* Table, and searchNow() with S in the Service Table each lead to a
\* 'discover' event for S at the Browser; for searchNow the table is to
\* hold S until the Advertiser has answered.
C21_EndToEndDiscovery ==
    /\ AnnouncedNew ~> BrowserEmitted("discover")
    /\ AnnouncedNow ~> BrowserEmitted("discover")
    /\ SearchedNow ~> (BrowserEmitted("discover") \/ ~Map_has(_services, NetService))

\* The Browser has discovered S from the Reply to its search.
C21_Witness ==
    /\ BrowserEmitted("discover")
    /\ events[1].payload.isReply
    /\ events[1].remote = AdvertiserPeer
    /\ Payload_getHeader(events[1].payload, USN) = UsnOf(NetService)

\* C22: with the Browser subscribed to S and datagrams eventually
\* delivered, a withdraw(S) that finds S in the Service Table leads to a
\* 'withdraw' event for S at the Browser.
C22_EndToEndWithdrawal ==
    (op.name = "Advertiser.withdraw" /\ op.service = NetService /\ op.result)
        ~> BrowserEmitted("withdraw")

\* The Browser has heard the byebye of S after the Advertiser withdrew it.
C22_Witness ==
    /\ BrowserEmitted("withdraw")
    /\ ~Map_has(_services, NetService)
    /\ Payload_getHeader(events[1].payload, NTS) = ssdp_byebye


(***************************************************************************)
(* Claims about the codec, checked under SpecCodec.                        *)
(***************************************************************************)
\* C23: decoding the encoded message yields the header mapping of the
\* message, for every mapping and every kind.
C23_HeaderRoundTrip ==
    op.name = "Payload.decode" =>
        ~op.threw /\ op.decoded.headers = op.payload.headers

\* The request or status line of a method, written out.
RequestLine(method) ==
    CASE method = "reply"    -> <<"HTTP/1.1", SP, "200", SP, "OK">>
      [] method = "notify"   -> <<"NOTIFY", SP, "*", SP, "HTTP/1.1">>
      [] method = "m-search" -> <<"M-SEARCH", SP, "*", SP, "HTTP/1.1">>

\* The place of a header name in ascending order.
NameRank(name) == CHOOSE i \in 1..Len(SortedNames) : SortedNames[i] = name

KeyOfLine(line) == SubSeq(line, 1, indexOf(line, COLON, 1) - 1)

\* The text is the first line of the method, one 'KEY: value' line per
\* header, keys upper-case and ascending, and a blank line, each ended by
\* CRLF.
SerializedAs(text, message) ==
    LET lines == split(text, LF)
        n     == Cardinality(DOMAIN message.headers)
    IN  /\ Len(lines) = n + 3
        /\ lines[1] = RequestLine(message.method) \o <<CR>>
        /\ \A i \in 1..n :
              LET key == KeyOfLine(lines[i + 1])
              IN  /\ key \in DOMAIN message.headers
                  /\ key = toUpperCase(key)
                  /\ lines[i + 1] = key \o <<COLON, SP>> \o message.headers[key] \o <<CR>>
                  /\ i < n => NameRank(key) < NameRank(KeyOfLine(lines[i + 2]))
        /\ lines[n + 2] = <<CR>>
        /\ lines[n + 3] = <<>>

\* C24: the encoded text is determined by the method and the header
\* mapping, whatever setHeader calls produced the mapping: the request or
\* status line, one 'KEY: value' line per header with upper-case keys in
\* ascending order, a blank line, all ended by CRLF.
C24_DeterministicSerialization ==
    op.name = "Payload.toString" => SerializedAs(op.text, op.payload)

\* Two headers set in descending order, one of them twice, have been encoded.
C24_Witness ==
    /\ op.name = "Payload.toString"
    /\ Len(op.calls) = 2
    /\ op.calls[1][1] = <<"st">>
    /\ op.calls[2][1] = <<"a">>
    /\ Cardinality(DOMAIN op.payload.headers) = 2


(***************************************************************************)
(* Claims about what the Advertiser sends, checked under SpecOutbound.     *)
(***************************************************************************)
\* The target a Notification or Reply is about: its NT, or its ST.
TargetOf(message) ==
    IF message.isReply THEN Payload_getHeader(message, ST)
    ELSE Payload_getHeader(message, NT)

\* uuid:<uuid>::<target>, written out.
QualifiedUsn(target) == <<"uuid", COLON>> \o Uuid \o <<COLON, COLON>> \o target

CarriesUsn(message) ==
    \/ Payload_getHeader(message, USN) = QualifiedUsn(TargetOf(message))
    \/ /\ Payload_getHeader(message, USN) = <<"uuid", COLON>> \o Uuid
       /\ ~message.isReply
       /\ TargetOf(message) = <<"uuid", COLON>> \o Uuid

\* C25: every Notification and Reply the Advertiser hands to the transport
\* carries USN = uuid:<uuid>::<service>, whatever headers the caller gave
\* for the service, or the bare uuid:<uuid> in the notice for uuid:<uuid>.
C25_UsnInvariant ==
    \A i \in 1..Len(sent) :
        /\ sent[i].message.method \in {"notify", "reply"}
        /\ CarriesUsn(sent[i].message)

\* A service announced with a USN of the caller's has been notified with
\* the computed USN and the caller's other header.
C25_Witness ==
    /\ op.name = "Advertiser.announce"
    /\ Headers_has(Headers_new(op.headers), USN)
    /\ Len(sent) = 1
    /\ Payload_getHeader(sent[1].message, USN) = QualifiedUsn(op.service)
    /\ Payload_getHeader(sent[1].message, <<"a">>) = <<"1">>


(***************************************************************************)
(* Claims about send errors, checked under SpecSend.                       *)
(***************************************************************************)
\* An operation has handed every message of its sweep to the transport,
\* whatever the transport makes of each, and has emitted no send error
\* itself: the last promises are those of its messages, in order.
SweepComplete ==
    op.name \notin {"send.then", "Advertiser.create"} =>
        LET promises == network.unsettled
            first    == Len(promises) - Len(sent)
        IN  /\ first >= 0
            /\ \A i \in 1..Len(sent) : promises[first + i].message = sent[i]
            /\ \A j \in 1..Len(events) :
                  ~(events[j].event = "error" /\ events[j].type = "send")
            /\ op.name \in {"Browser.searchNow"} => Len(sent) = Len(_searchTargets)
            /\ op.name = "Advertiser.announceNow" => Len(sent) = 2 + Len(_services)

\* The callback of a resolved send has emitted one 'error' event per error
\* of the list, in order, and nothing else.
EmittedEach ==
    op.name = "send.then" =>
        /\ Len(events) = Len(op.errors)
        /\ \A j \in 1..Len(events) :
              events[j] = [event |-> "error", type |-> "send", raw |-> op.errors[j]]

\* The callback runs once: its promise is no longer waiting, the others are.
SettledOnce ==
    op'.name = "send.then" =>
        /\ Len(network'.unsettled) = Len(network.unsettled) - 1
        /\ \E i \in 1..Len(network.unsettled) :
              /\ network.unsettled[i] = [message |-> op'.message, errors |-> op'.errors]
              /\ network'.unsettled = RemoveAt(network.unsettled, i)

\* C26: every send of a sweep is made whatever the transport reports for
\* the others, the caller sees no error, and each error of the list a send
\* resolves with is emitted as one 'error' event, once.
C26_SendErrorsAreValues == [](SweepComplete /\ EmittedEach) /\ [][SettledOnce]_vars

\* The first search of a sweep failed with two errors, both were emitted,
\* and the second search of the sweep was made all the same.
C26_Witness ==
    /\ op.name = "send.then"
    /\ op.owner = "Browser"
    /\ Payload_getHeader(op.message.message, ST) = urn_test_1
    /\ Len(events) = 2
    /\ Len(network.unsettled) = 1
    /\ Payload_getHeader(network.unsettled[1].message.message, ST) = urn_test_2


(***************************************************************************)
(* Claims about the socket's dispatch, checked under SpecDispatch.         *)
(***************************************************************************)
\* The tag of the kind a datagram is taken for, by its leading text.
KindTag(message) ==
    IF Head(message) = "M-SEARCH" THEN "M-SEARCH"
    ELSE IF Head(message) = "NOTIFY" THEN "NOTIFY"
    ELSE "REPLY"

KindEvent(message) ==
    CASE KindTag(message) = "M-SEARCH" -> "search"
      [] KindTag(message) = "NOTIFY"   -> "notification"
      [] KindTag(message) = "REPLY"    -> "reply"

\* The Search validity gate of the socket, on the decoded headers.
PassesSocketGate(message) ==
    LET headers == Payload_decode(message).headers
    IN  /\ MAN \in DOMAIN headers
        /\ headers[MAN] = <<"\"ssdp", COLON, "discover\"">>
        /\ ST \in DOMAIN headers

\* C27: a datagram is taken for one kind by its leading text and leads to
\* exactly one of: the event of that kind with the decoded payload; an
\* 'error' event tagged with that kind and carrying the raw text, when the
\* decode throws; nothing, for a Search that fails the gate.  This holds
\* for every datagram, whatever the earlier ones led to.
C27_DispatchAtBoundary ==
    op.name = "SSDP.message" =>
        IF Payload_decode(op.message).threw
        THEN events = <<[event |-> "error", type |-> KindTag(op.message),
                         raw |-> op.message]>>
        ELSE IF KindTag(op.message) = "M-SEARCH" /\ ~PassesSocketGate(op.message)
        THEN events = <<>>
        ELSE /\ Len(events) = 1
             /\ events[1].event = KindEvent(op.message)
             /\ events[1].payload.headers = Payload_decode(op.message).headers
             /\ events[1].payload.isReply = (KindTag(op.message) = "REPLY")
             /\ KindTag(op.message) = "M-SEARCH" =>
                    /\ events[1].payload.host = op.remote.address
                    /\ events[1].payload.port = op.remote.port

\* A Notification has been dispatched right after a datagram whose decode
\* threw.
C27_Witness ==
    /\ op.name = "SSDP.message"
    /\ op.earlier = <<"error">>
    /\ Len(events) = 1
    /\ events[1].event = "notification"


(***************************************************************************)
(* Claims about the Browser's destruction, checked under SpecBrowser.      *)
(***************************************************************************)
\* C28: once destroy() has run the Browser hands nothing to the transport:
\* destroy itself sends nothing, and no tick, searchNow() or subscribe()
\* sends a Search afterwards.
C28_DestroyedBrowserIsSilent == browserSocket = "destroyed" => sent = <<>>


(***************************************************************************)
(* Claims about read access, checked under SpecOwned.                      *)
(***************************************************************************)
NoDuplicates(seq) == \A i, j \in 1..Len(seq) : seq[i] = seq[j] => i = j

\* Browser.subscriptions after each operation: the targets of create, plus
\* the entry subscribe made ('*' stands for ssdp:all there), minus the
\* string unsubscribe was given.
SubscriptionsReflect ==
    LET now     == Range(Browser_subscriptions(_searchTargets))
        earlier == Range(before.targets)
    IN  /\ NoDuplicates(Browser_subscriptions(_searchTargets))
        /\ op.name = "create" =>
              /\ now = Range(op.targets)
              /\ op.targets # <<>> => Browser_subscriptions(_searchTargets) # <<>>
        /\ op.name = "Browser.subscribe" => now = earlier \cup {EntryOf(op.service)}
        /\ op.name = "Browser.unsubscribe" => now = earlier \ {op.service}
        /\ op.name \notin {"create", "Browser.subscribe", "Browser.unsubscribe"} =>
              now = earlier

\* The keys of Advertiser.services after each operation: the services of
\* create, plus the one announced, minus the one withdrawn.
ServicesReflect ==
    LET table   == Advertiser_services(_services)
        now     == {table[i][1] : i \in 1..Len(table)}
        earlier == {before.services[i][1] : i \in 1..Len(before.services)}
    IN  /\ NoDuplicates([i \in 1..Len(table) |-> table[i][1]])
        /\ op.name = "create" =>
              /\ now = {op.services[i][1] : i \in 1..Len(op.services)}
              /\ op.services # <<>> => table # <<>>
        /\ op.name = "Advertiser.announce" => now = earlier \cup {op.service}
        /\ op.name = "Advertiser.withdraw" => now = earlier \ {op.service}
        /\ op.name \notin {"create", "Advertiser.announce", "Advertiser.withdraw"} =>
              now = earlier

\* C29: what subscriptions and services return is the owned set: what
\* create was given, plus what was subscribed or announced, minus what was
\* unsubscribed or withdrawn, without duplicates, and not empty right after
\* a create with services.
C29_ReadAccessReflectsOwnedSet == SubscriptionsReflect /\ ServicesReflect

\* A target has been subscribed, another unsubscribed, a service announced
\* and another withdrawn, and both reads show what is left.
C29_Witness ==
    /\ op.name = "Advertiser.withdraw"
    /\ op.result
    /\ Len(Advertiser_services(_services)) = 1
    /\ Advertiser_services(_services)[1][1] # op.service
    /\ Browser_subscriptions(_searchTargets) = <<ssdp_all, urn_test_1>>


(***************************************************************************)
(* Claims about the end of the Advertiser, checked under SpecDestroy.      *)
(***************************************************************************)
\* C30: once destroy() has completed (byebyes sent, timer stopped, socket
\* released) the Service Table is empty.
C30_TableEmptiedOnDestroy ==
    (goodbyes.stage = "done" /\ advertiserSocket = "destroyed") =>
        Advertiser_services(_services) = <<>>

(***************************************************************************)
(* Claims about failures and order inside handle_payload.                  *)
(***************************************************************************)
\* handle_payload has resumed from a hook that failed.
HookFailed ==
    /\ op.name = "Advertiser.handle_payload"
    /\ authenticationFails(op.remote.address)

\* C31: a failure of the authentication hook while an inbound Search is
\* handled is surfaced as an Advertiser 'error' event, produces no 'search'
\* event and no Reply, and does not escape as an unhandled failure of the
\* receive path.
C31_HookFailureIsErrorEvent ==
    HookFailed =>
        /\ \E i \in 1..Len(events) : events[i].event = "error"
        /\ \A i \in 1..Len(events) : events[i].event # "search"
        /\ sent = <<>>
        /\ op.rejection # "unhandled"

\* The last step went on with a search that matches a branch.
Matched ==
    /\ Answered
    /\ \/ SearchTarget \in ReservedTargets
       \/ Map_has(before.services, SearchTarget)

\* C32: for every inbound Search that matches a branch (ssdp:all,
\* upnp:rootdevice, uuid:U or a key of the table) the Advertiser emits
\* exactly one 'search' event, which carries the matched target and the
\* original request, and it emits it before any Reply for that Search is
\* handed to the transport.
C32_SearchEventBeforeReply ==
    Matched =>
        /\ events = <<[event   |-> "search",
                       target  |-> SearchTarget,
                       payload |-> op.payload,
                       remote  |-> op.remote]>>
        /\ \A i \in 1..Len(sent) : sent[i].message.method = "reply"
        /\ Len(op.trace) = 1 + Len(sent)
        /\ op.trace[1] = "emit"
        /\ \A i \in 2..Len(op.trace) : op.trace[i] = "send"

\* A search for ssdp:all has been answered from a table of two services.
C32_Witness ==
    /\ Matched
    /\ SearchTarget = ssdp_all
    /\ Len(events) = 1
    /\ Len(sent) = 2
    /\ op.trace = <<"emit", "send", "send">>

(***************************************************************************)
(* Claims about what touches the table, and about the timer during the     *)
(* farewell.                                                               *)
(***************************************************************************)
\* The table but for the entry of one service.
Map_without(map, key) == SelectSeq(map, LAMBDA entry : entry[1] # key)

\* C33: the table is changed by announce and withdraw only: a timer tick,
\* announceNow, the immediate notification inside announce and the
\* construction of replies leave its keys and the stored headers of every
\* entry as they were, and announce stores the headers the caller passed.
C33_TableMutatedOnlyByAnnounceWithdraw ==
    /\ op.name \in {"Advertiser.tick", "Advertiser.announceNow",
                    "Advertiser.handle_payload"} =>
            _services = before.services
    /\ op.name = "Advertiser.announce" =>
            /\ Map_get(_services, op.service) = Headers_new(op.headers)
            /\ Map_without(_services, op.service)
                   = Map_without(before.services, op.service)

\* C34: once destroy has been called no ssdp:alive notification is handed
\* to the transport any more, also not by a timer tick that fires while the
\* byebyes of destroy are still being sent.
C34_NoAliveAfterDestroy ==
    isDestroyed =>
        \A i \in 1..Len(sent) :
            Payload_getHeader(sent[i].message, NTS) # ssdp_alive

(***************************************************************************)
(* Claims about the table and the waiting authentication hook, checked     *)
(* under SpecInbound.                                                      *)
(***************************************************************************)
\* An approved search for service S waits for the authentication hook.
WaitingFor(S) ==
    {w \in BagToSet(pending) :
        /\ Payload_getHeader(w.payload, ST) = S
        /\ authenticationProvider(w.remote.address)}

\* The next step resumes the handle_payload call w.
Resumes(w) ==
    /\ BagIn(w, pending)
    /\ pending' = pending (-) SetToBag({w})
    /\ op'.name = "Advertiser.handle_payload"
    /\ op'.payload = w.payload
    /\ op'.remote = w.remote

\* A resumed handle_payload answers a search for a service of the table,
\* and only for one, as the table is when it resumes.
RepliesFromCurrentTable ==
    (Answered /\ SearchTarget \notin ReservedTargets) =>
        IF Map_has(before.services, SearchTarget)
        THEN /\ Len(sent) = 1
             /\ Payload_getHeader(sent[1].message, ST) = SearchTarget
             /\ Len(events) = 1 /\ events[1].event = "search"
        ELSE /\ sent = <<>>
             /\ events = <<UnknownTargetEvent(SearchTarget)>>

\* withdraw(S) has just removed S while a search for S was waiting: when
\* that search resumes next, no Reply is sent and the unknown-target error
\* is emitted.
WithdrawnWhilePending ==
    \A w \in BagToSet(pending) :
        ( /\ op.name = "Advertiser.withdraw" /\ op.result
          /\ op.service \notin ReservedTargets
          /\ w \in WaitingFor(op.service)
          /\ Resumes(w) ) =>
            /\ sent' = <<>>
            /\ events' = <<UnknownTargetEvent(op.service)>>

\* announce(S) has just run while a search for S was waiting: when that
\* search resumes next, the Reply for S is sent.
AnnouncedWhilePending ==
    \A w \in BagToSet(pending) :
        ( /\ op.name = "Advertiser.announce"
          /\ op.service \notin ReservedTargets
          /\ w \in WaitingFor(op.service)
          /\ Resumes(w) ) =>
            /\ Len(sent') = 1
            /\ Payload_getHeader(sent'[1].message, ST) = op.service
            /\ sent'[1].dstAddress = w.remote.address

\* C35: the table is consulted only after the authentication hook has
\* answered: if withdraw(S) runs while the hook for a search for S is
\* pending, no Reply for S is sent and an unknown-target error is emitted;
\* if announce(S) runs while it is pending, the Reply is sent; a Reply for
\* a service S that is no identity is sent only if S is in the table when
\* the reply is built.
C35_TableConsultedAfterHook ==
    /\ []RepliesFromCurrentTable
    /\ [][WithdrawnWhilePending /\ AnnouncedWhilePending]_vars

\* withdraw(urn:test:1) has just removed the service while an approved
\* search for it waits for the hook.
C35_Witness ==
    /\ op.name = "Advertiser.withdraw"
    /\ op.result
    /\ op.service = urn_test_1
    /\ Map_has(before.services, urn_test_1)
    /\ ~Map_has(_services, urn_test_1)
    /\ WaitingFor(urn_test_1) # {}

(***************************************************************************)
(* Claims about ssdp:all from end to end, checked under SpecSsdpAll.       *)
(***************************************************************************)
\* The last step answered an approved search for ssdp:all.
AnsweredAll == op.name = "Advertiser.handle_payload" /\ SearchTarget = ssdp_all

\* The Browser has just received a datagram, its only subscription being
\* ssdp:all.
HeardByAllBrowser ==
    /\ op.name = "Browser.message"
    /\ _searchTargets = <<ssdp_all>>

\* C36 as stated: every Reply sent in answer to an ssdp:all Search carries
\* a service type other than ssdp:all as ST, and a Browser whose set is
\* exactly {ssdp:all} emits no 'discover' for the replies and the alive
\* notifications it receives.
C36_AllRepliesNeverSsdpAll ==
    /\ AnsweredAll =>
          \A i \in 1..Len(sent) : Payload_getHeader(sent[i].message, ST) # ssdp_all
    /\ HeardByAllBrowser =>
          \A i \in 1..Len(events) : events[i].event # "discover"

\* C36, amended: every Reply sent in answer to an ssdp:all Search carries
\* the key of its table entry as ST, which is ssdp:all only for a service
\* announced under that very name; so a Browser whose set is exactly
\* {ssdp:all} emits 'discover' for nothing but the replies and alive
\* notifications of a service named ssdp:all, and none for those of any
\* other service type.
C36_AllRepliesCarryTableKey ==
    /\ AnsweredAll =>
          /\ Len(sent) = Len(before.services)
          /\ \A i \in 1..Len(sent) :
                /\ sent[i].message.isReply
                /\ Payload_getHeader(sent[i].message, ST) = before.services[i][1]
    /\ HeardByAllBrowser =>
          \A i \in 1..Len(events) :
              events[i].event = "discover" =>
                  /\ events[i].service = ssdp_all
                  /\ Payload_getHeader(events[i].payload, USN) = UsnOf(ssdp_all)
                  /\ InboundTarget(op.message) = ssdp_all
    /\ (HeardByAllBrowser /\ InboundTarget(op.message) # ssdp_all) => events = <<>>

\* The Browser has received the Reply for urn:test:1 that answers its
\* search for ssdp:all, and has emitted nothing.
C36_Witness ==
    /\ HeardByAllBrowser
    /\ InboundKind(op.message) = "reply"
    /\ InboundTarget(op.message) = urn_test_1
    /\ InboundHeader(op.message, USN) = UsnOf(urn_test_1)
    /\ events = <<>>

====
